---- MODULE Spec2Model ----
(***************************************************************************)
(* A model of the GraphQL language front end of graphql-rs: the lexer's    *)
(* token stream, the recursive-descent parser (parser.rs), the printer     *)
(* (printer.rs) and the tree visitor (visitor.rs).                         *)
(*                                                                         *)
(* Text is a sequence of characters; a character is a one-character        *)
(* string.  A name and a string value are sequences of characters too, so  *)
(* that printing and lexing are real conversions.  Option<T> is a sequence *)
(* of length 0 (None) or 1 (Some), Vec<T> is a sequence, an enum value is  *)
(* a record [tag, node].                                                   *)
(***************************************************************************)
EXTENDS Integers, Sequences, FiniteSets, TLC

(***************************************************************************)
(* Characters                                                              *)
(***************************************************************************)
Digits == {"0", "1", "2", "3", "4", "5", "6", "7", "8", "9"}

HexDigits == Digits \cup {"a", "b", "c", "d", "e", "f", "A", "B", "C", "D", "E", "F"}

Letters ==
  {"a", "b", "c", "d", "e", "f", "g", "h", "i", "j", "k", "l", "m",
   "n", "o", "p", "q", "r", "s", "t", "u", "v", "w", "x", "y", "z",
   "A", "B", "C", "D", "E", "F", "G", "H", "I", "J", "K", "L", "M",
   "N", "O", "P", "Q", "R", "S", "T", "U", "V", "W", "X", "Y", "Z"}

NameStart == Letters \cup {"_"}

NameContinue == NameStart \cup Digits

\* Characters skipped between tokens (the comment is handled apart).
Ignored == {" ", "\t", "\n", "\r", ",", "BOM"}

\* Characters below U+0020 that the model knows.
ControlChars == {"\t", "\n", "\r", "\f", "BS"}

DigitValue(c) ==
  CASE c = "0" -> 0 [] c = "1" -> 1 [] c = "2" -> 2 [] c = "3" -> 3
    [] c = "4" -> 4 [] c = "5" -> 5 [] c = "6" -> 6 [] c = "7" -> 7
    [] c = "8" -> 8 [] c = "9" -> 9

DigitChar(d) ==
  CASE d = 0 -> "0" [] d = 1 -> "1" [] d = 2 -> "2" [] d = 3 -> "3"
    [] d = 4 -> "4" [] d = 5 -> "5" [] d = 6 -> "6" [] d = 7 -> "7"
    [] d = 8 -> "8" [] d = 9 -> "9"

(***************************************************************************)
(* Position and Location (position.rs)                                     *)
(***************************************************************************)
Position(index, line, column) == [index |-> index, line |-> line, column |-> column]

Location(start, end) == [start |-> start, end |-> end]

\* The position of a lexer that has not consumed a character yet.
StartPosition == Position(0, 1, 1)

\* The position of the i-th character of text (i counts from 1): the
\* 0-based offset, the 1-based line and the 1-based column.
PositionOfChar(text, i) ==
  LET newlines == {j \in 1..(i - 1) : text[j] = "\n"}
      lastNl == IF newlines = {} THEN 0
                ELSE CHOOSE j \in newlines : \A k \in newlines : k <= j
  IN Position(i - 1, 1 + Cardinality(newlines), i - lastNl)

\* The lexer's cursor after it consumed the first n characters of text: the
\* position of the last character consumed.
CursorAfter(text, n) ==
  IF n = 0 THEN StartPosition ELSE PositionOfChar(text, n)

(***************************************************************************)
(* Lexer.  lexer.rs is not among the sources: the token stream is modelled *)
(* from the lexer's contract (tokens, ignored characters, the numeric and  *)
(* string grammars, the four error kinds) and from the token positions the *)
(* parser's tests state.                                                   *)
(***************************************************************************)
Token(kind, start, end) == [err |-> FALSE, kind |-> kind, start |-> start, end |-> end]

LexerError(kind, pos) == [err |-> TRUE, error |-> [kind |-> kind, pos |-> pos]]

Punctuator(tag) == [tag |-> tag]

NameKind(chars) == [tag |-> "Name", value |-> chars]

IntKind(n) == [tag |-> "Int", value |-> n]

FloatKind(f) == [tag |-> "Float", value |-> f]

StringKind(chars) == [tag |-> "String", value |-> chars]

PunctuatorTag(c) ==
  CASE c = "{" -> "LeftBrace" [] c = "}" -> "RightBrace"
    [] c = "(" -> "LeftParen" [] c = ")" -> "RightParen"
    [] c = "[" -> "LeftBracket" [] c = "]" -> "RightBracket"
    [] c = ":" -> "Colon" [] c = "$" -> "Dollar" [] c = "=" -> "Equals"
    [] c = "@" -> "At" [] c = "!" -> "Bang" [] c = "|" -> "Pipe"

PunctuatorChars == {"{", "}", "(", ")", "[", "]", ":", "$", "=", "@", "!", "|"}

\* The first index from i on that is not before the end of a line.
RECURSIVE SkipComment(_, _)
SkipComment(text, i) ==
  IF i > Len(text) \/ text[i] = "\n" THEN i ELSE SkipComment(text, i + 1)

\* The first index from i on that holds a significant character; Len + 1 when
\* there is none.
RECURSIVE SkipIgnored(_, _)
SkipIgnored(text, i) ==
  IF i > Len(text) THEN i
  ELSE IF text[i] \in Ignored THEN SkipIgnored(text, i + 1)
  ELSE IF text[i] = "#" THEN SkipIgnored(text, SkipComment(text, i + 1))
  ELSE i

\* The first index from i on that holds no character of set.
RECURSIVE ScanWhile(_, _, _)
ScanWhile(text, i, set) ==
  IF i <= Len(text) /\ text[i] \in set THEN ScanWhile(text, i + 1, set) ELSE i

\* The number written by the digits text[a..b].
RECURSIVE DigitsValue(_, _, _)
DigitsValue(text, a, b) ==
  IF b < a THEN 0 ELSE 10 * DigitsValue(text, a, b - 1) + DigitValue(text[b])

RECURSIVE Pow10(_)
Pow10(n) == IF n = 0 THEN 1 ELSE 10 * Pow10(n - 1)

\* A float is kept as the decimal sign * mant * 10^exp with mant not a
\* multiple of ten (zero is mant = 0, exp = 0): the value an f32 holds for a
\* literal of few significant digits, up to the rounding that its shortest
\* decimal form undoes.
RECURSIVE NormalFloat(_, _, _)
NormalFloat(neg, mant, exp) ==
  IF mant = 0 THEN [neg |-> neg, mant |-> 0, exp |-> 0]
  ELSE IF mant % 10 = 0 THEN NormalFloat(neg, mant \div 10, exp + 1)
  ELSE [neg |-> neg, mant |-> mant, exp |-> exp]

\* A lexing step: the index after the item, and the item.
Lexed(next, item) == [next |-> next, item |-> item]

\* A number the lexer rejects: the error is at the character at j, or at the
\* last character when the text ended.
BadNumber(text, j) ==
  Lexed(Len(text) + 1,
        LexerError("MalformedNumber",
                   PositionOfChar(text, IF j > Len(text) THEN Len(text) ELSE j)))

\* The token of the number text[i..last].
NumberToken(text, i, last, kind) ==
  Lexed(last + 1, Token(kind, PositionOfChar(text, i), PositionOfChar(text, last)))

\* An Int is an i32: lead is the number without its last digit, unit the
\* last digit.
FitsI32(neg, digits, lead, unit) ==
  /\ digits <= 10
  /\ digits = 10 =>
       \/ lead < 214748364
       \/ lead = 214748364 /\ unit <= (IF neg THEN 8 ELSE 7)

\* The Int token text[i..intEnd - 1], whose digits start at a.
LexInt(text, i, a, intEnd, lead, unit) ==
  IF ~FitsI32(a > i, intEnd - a, lead, unit) THEN BadNumber(text, a)
  ELSE NumberToken(text, i, intEnd - 1,
                   IntKind(IF a > i THEN (0 - 10 * lead) - unit ELSE 10 * lead + unit))

\* The Float token text[i..expEnd - 1]: the integer digits are
\* text[a..intEnd - 1], the fraction digits text[intEnd + 1..fracEnd - 1] when
\* fracEnd > intEnd, the exponent digits text[expSign..expEnd - 1] when
\* expEnd > fracEnd.
LexFloat(text, i, a, intEnd, fracEnd, expSign, expEnd) ==
  LET intVal == DigitsValue(text, a, intEnd - 1)
      mant == IF fracEnd > intEnd
              THEN DigitsValue(text, intEnd + 1, fracEnd - 1)
                     + intVal * Pow10(fracEnd - intEnd - 1)
              ELSE intVal
      expVal == IF expEnd > fracEnd THEN DigitsValue(text, expSign, expEnd - 1) ELSE 0
      expNeg == expEnd > fracEnd /\ text[expSign - 1] = "-"
  IN NumberToken(text, i, expEnd - 1,
       FloatKind(NormalFloat(a > i, mant,
                   (IF expNeg THEN 0 - expVal ELSE expVal)
                     - (IF fracEnd > intEnd THEN fracEnd - intEnd - 1 ELSE 0))))

\* The number from its exponent part on: expSign is where the digits of the
\* exponent start, when there is an exponent.
LexExponent(text, i, a, intEnd, fracEnd, expSign) ==
  IF fracEnd <= Len(text) /\ text[fracEnd] \in {"e", "E"}
    THEN IF ScanWhile(text, expSign, Digits) = expSign THEN BadNumber(text, expSign)
         ELSE LexFloat(text, i, a, intEnd, fracEnd, expSign,
                       ScanWhile(text, expSign, Digits))
  ELSE IF fracEnd > intEnd
    THEN LexFloat(text, i, a, intEnd, fracEnd, fracEnd, fracEnd)
  ELSE LexInt(text, i, a, intEnd, DigitsValue(text, a, intEnd - 2),
              DigitValue(text[intEnd - 1]))

\* The number from the end of its fraction part on.
LexFraction(text, i, a, intEnd, fracEnd) ==
  IF fracEnd = intEnd + 1 THEN BadNumber(text, fracEnd)
  ELSE LexExponent(text, i, a, intEnd, fracEnd,
         IF fracEnd + 1 <= Len(text) /\ text[fracEnd + 1] \in {"+", "-"}
         THEN fracEnd + 2 ELSE fracEnd + 1)

\* The number from the end of its integer part on.
LexInteger(text, i, a, intEnd) ==
  IF intEnd <= Len(text) /\ text[intEnd] = "."
    THEN LexFraction(text, i, a, intEnd, ScanWhile(text, intEnd + 1, Digits))
    ELSE LexFraction(text, i, a, intEnd, intEnd)

\* The number whose digits start at a.
LexDigits(text, i, a) ==
  IF a > Len(text) \/ text[a] \notin Digits THEN BadNumber(text, a)
  ELSE IF text[a] = "0"
    THEN IF a + 1 <= Len(text) /\ text[a + 1] \in Digits THEN BadNumber(text, a + 1)
         ELSE LexInteger(text, i, a, a + 1)
  ELSE LexInteger(text, i, a, ScanWhile(text, a, Digits))

\* The numeric token that starts at i (a digit or a minus sign).
LexNumber(text, i) == LexDigits(text, i, IF text[i] = "-" THEN i + 1 ELSE i)

\* The character an escape sequence \c stands for.
EscapedChar(c) ==
  CASE c = "\"" -> "\"" [] c = "\\" -> "\\" [] c = "/" -> "/"
    [] c = "b" -> "BS" [] c = "f" -> "\f" [] c = "n" -> "\n"
    [] c = "r" -> "\r" [] c = "t" -> "\t"

EscapeChars == {"\"", "\\", "/", "b", "f", "n", "r", "t"}

\* A string the lexer rejects: the error is at the character at k, or at the
\* last character when the text ended.
BadString(text, kind, k) ==
  Lexed(Len(text) + 1,
        LexerError(kind, PositionOfChar(text, IF k > Len(text) THEN Len(text) ELSE k)))

\* The rest of the string token whose opening quote is at i0; j is the next
\* character to read and acc the value read so far.
RECURSIVE LexStringFrom(_, _, _, _)
LexStringFrom(text, i0, j, acc) ==
  IF j > Len(text) THEN BadString(text, "UnterminatedString", j)
  ELSE IF text[j] = "\""
    THEN Lexed(j + 1, Token(StringKind(acc), PositionOfChar(text, i0),
                            PositionOfChar(text, j)))
  ELSE IF text[j] \in {"\n", "\r"} THEN BadString(text, "UnterminatedString", j)
  ELSE IF text[j] \in ControlChars THEN BadString(text, "InvalidCharacter", j)
  ELSE IF text[j] = "\\"
    THEN IF j + 1 > Len(text) THEN BadString(text, "UnterminatedString", j + 1)
         ELSE IF text[j + 1] \in EscapeChars
           THEN LexStringFrom(text, i0, j + 2, Append(acc, EscapedChar(text[j + 1])))
         ELSE IF text[j + 1] = "u" /\ j + 5 <= Len(text)
                 /\ \A k \in (j + 2)..(j + 5) : text[k] \in HexDigits
           THEN LexStringFrom(text, i0, j + 6,
                  Append(acc, "U+" \o text[j + 2] \o text[j + 3] \o text[j + 4]
                                \o text[j + 5]))
         ELSE BadString(text, "BadEscape", j + 1)
  ELSE LexStringFrom(text, i0, j + 1, Append(acc, text[j]))

\* The Name token text[i..j - 1].
LexName(text, i, j) ==
  Lexed(j, Token(NameKind(SubSeq(text, i, j - 1)), PositionOfChar(text, i),
                 PositionOfChar(text, j - 1)))

\* The token or error that starts at the significant character at i, and the
\* index after it.
LexToken(text, i) ==
  IF text[i] \in PunctuatorChars
    THEN Lexed(i + 1, Token(Punctuator(PunctuatorTag(text[i])), PositionOfChar(text, i),
                            PositionOfChar(text, i)))
  ELSE IF text[i] = "."
    THEN IF i + 2 <= Len(text) /\ text[i + 1] = "." /\ text[i + 2] = "."
         THEN Lexed(i + 3, Token(Punctuator("Ellipsis"), PositionOfChar(text, i),
                                 PositionOfChar(text, i + 2)))
         ELSE Lexed(Len(text) + 1, LexerError("InvalidCharacter", PositionOfChar(text, i)))
  ELSE IF text[i] \in Digits \cup {"-"} THEN LexNumber(text, i)
  ELSE IF text[i] = "\"" THEN LexStringFrom(text, i, i + 1, <<>>)
  ELSE IF text[i] \in NameStart THEN LexName(text, i, ScanWhile(text, i, NameContinue))
  ELSE Lexed(Len(text) + 1, LexerError("InvalidCharacter", PositionOfChar(text, i)))

\* The stream after the lexing step r: it stops after its first error.
RECURSIVE LexFrom(_, _, _)
LexAfter(text, acc, r) ==
  IF r.item.err THEN Append(acc, r.item) ELSE LexFrom(text, r.next, Append(acc, r.item))

\* The stream from the significant character at j on (the end when j is
\* beyond the text).
LexAt(text, j, acc) ==
  IF j > Len(text) THEN acc ELSE LexAfter(text, acc, LexToken(text, j))

\* The items the lexer yields from index i on, after acc; the stream stops
\* after its first error.
LexFrom(text, i, acc) == LexAt(text, SkipIgnored(text, i), acc)

\* Lexer::new(text) run to its end: the items of the stream and the cursor
\* once the stream has ended.
Lex(text) == [items |-> LexFrom(text, 1, <<>>), endpos |-> CursorAfter(text, Len(text))]

\* Lexer::pos() once j items have been taken from the stream (a peeked item
\* counts: peek lexes it): the last character of the j-th token, and the last
\* character of the text once the end of the stream was seen.
PosAfterItems(L, j) ==
  IF j = 0 THEN StartPosition
  ELSE IF j <= Len(L.items)
    THEN IF L.items[j].err THEN L.items[j].error.pos ELSE L.items[j].end
  ELSE L.endpos

(***************************************************************************)
(* Parser (parser.rs).  A parser is the record p = [lexer, include_location,*)
(* type_system, subscriptions]: the token stream, the location flag and    *)
(* the two cargo features.  The cursor s = [k, peeked] is the mutable part *)
(* of the lexer: k items were consumed and peeked tells whether the next   *)
(* one is held in the peek cache.  Every parse operator maps (p, s) to a   *)
(* Result that carries the cursor it leaves behind.                        *)
(***************************************************************************)
Kw_query == <<"q", "u", "e", "r", "y">>

Kw_mutation == <<"m", "u", "t", "a", "t", "i", "o", "n">>

Kw_subscription == <<"s", "u", "b", "s", "c", "r", "i", "p", "t", "i", "o", "n">>

Kw_fragment == <<"f", "r", "a", "g", "m", "e", "n", "t">>

Kw_on == <<"o", "n">>

Kw_ok == <<"o", "k">>

Kw_null == <<"n", "u", "l", "l">>

Kw_true == <<"t", "r", "u", "e">>

Kw_false == <<"f", "a", "l", "s", "e">>

Kw_schema == <<"s", "c", "h", "e", "m", "a">>

Kw_scalar == <<"s", "c", "a", "l", "a", "r">>

Kw_type == <<"t", "y", "p", "e">>

Kw_interface == <<"i", "n", "t", "e", "r", "f", "a", "c", "e">>

Kw_union == <<"u", "n", "i", "o", "n">>

Kw_enum == <<"e", "n", "u", "m">>

Kw_input == <<"i", "n", "p", "u", "t">>

Kw_extend == <<"e", "x", "t", "e", "n", "d">>

Kw_directive == <<"d", "i", "r", "e", "c", "t", "i", "v", "e">>

Kw_implements == <<"i", "m", "p", "l", "e", "m", "e", "n", "t", "s">>

Parser(lexer, include_location, type_system, subscriptions) ==
  [lexer |-> lexer, include_location |-> include_location,
   type_system |-> type_system, subscriptions |-> subscriptions]

StartCursor == [k |-> 0, peeked |-> FALSE]

Ok(val, s) == [ok |-> TRUE, val |-> val, s |-> s]

Err(err, s) == [ok |-> FALSE, err |-> err, s |-> s]

\* enum Error
UnexpectedEnding(pos) == [kind |-> "UnexpectedEnding", pos |-> pos]

UnexpectedToken(token) == [kind |-> "UnexpectedToken", token |-> token]

LexerErr(error) == [kind |-> "Lexer", error |-> error]

\* lexer.peek(): the next item as an Option, and the cursor peeking leaves.
HasNext(p, s) == s.k < Len(p.lexer.items)

PeekItem(p, s) == p.lexer.items[s.k + 1]

Peeked(s) == [s EXCEPT !.peeked = TRUE]

\* The cursor after lexer.next(): one item further, or at the end of the
\* stream.
Advanced(p, s) ==
  IF HasNext(p, s) THEN [k |-> s.k + 1, peeked |-> FALSE] ELSE Peeked(s)

pos(p, s) == PosAfterItems(p.lexer, s.k + (IF s.peeked THEN 1 ELSE 0))
\* loc() making a location whatever include_location says: a faulty variant.
loc_always(p, s, start) == <<Location(start, pos(p, s))>>

loc(p, s, start) ==
  IF p.include_location THEN <<Location(start, pos(p, s))>> ELSE <<>>

\* check(kind), for the kinds without a payload the parser asks for.
check(p, s, tag) ==
  HasNext(p, s) /\ ~PeekItem(p, s).err /\ PeekItem(p, s).kind.tag = tag

check_name(p, s, name) ==
  /\ HasNext(p, s) /\ ~PeekItem(p, s).err
  /\ PeekItem(p, s).kind.tag = "Name"
  /\ PeekItem(p, s).kind.value = name

check_any_name(p, s) ==
  HasNext(p, s) /\ ~PeekItem(p, s).err /\ PeekItem(p, s).kind.tag = "Name"

\* A faulty variant of next(): a lexer error is answered as None.
next_dropping_errors(p, s) ==
  IF ~HasNext(p, s) THEN Ok(<<>>, Advanced(p, s))
  ELSE IF PeekItem(p, s).err THEN Ok(<<>>, Advanced(p, s))
  ELSE Ok(<<PeekItem(p, s)>>, Advanced(p, s))

\* next(): Ok(token), Err(Lexer(error)), or the value <<>> for None.
next(p, s) ==
  IF ~HasNext(p, s) THEN Ok(<<>>, Advanced(p, s))
  ELSE IF PeekItem(p, s).err THEN Err(LexerErr(PeekItem(p, s).error), Advanced(p, s))
  ELSE Ok(<<PeekItem(p, s)>>, Advanced(p, s))

\* next_if(kind): Some(next()) when the next token has the kind, else None.
next_if(p, s, tag) ==
  IF check(p, s, tag) THEN next(p, s) ELSE Ok(<<>>, Peeked(s))

\* next_if_any_name(): Some(name) and the token consumed, or None.
next_if_any_name(p, s) ==
  IF check_any_name(p, s) THEN Ok(<<PeekItem(p, s).kind.value>>, Advanced(p, s))
  ELSE Ok(<<>>, Peeked(s))

\* next_if_name(name): true and the token consumed, or false.
next_if_name(p, s, name) ==
  IF check_name(p, s, name) THEN Ok(TRUE, Advanced(p, s)) ELSE Ok(FALSE, Peeked(s))

\* unexpected(): consumes the next item and makes an error of it.
unexpected(p, s) ==
  LET after_r(r) ==
        IF ~r.ok THEN r
        ELSE IF r.val = <<>> THEN Err(UnexpectedEnding(pos(p, r.s)), r.s)
        ELSE Err(UnexpectedToken(r.val[1]), r.s)
  IN after_r(next(p, s))

expect(p, s, tag) ==
  LET after_r(r) ==
        IF ~r.ok THEN r
        ELSE IF r.val = <<>> THEN Err(UnexpectedEnding(pos(p, r.s)), r.s)
        ELSE IF r.val[1].kind.tag = tag THEN Ok(<<>>, r.s)
        ELSE Err(UnexpectedToken(r.val[1]), r.s)
  IN after_r(next(p, s))

expect_name(p, s, name) ==
  LET after_r(r) ==
        IF ~r.ok THEN r
        ELSE IF r.val = <<>> THEN Err(UnexpectedEnding(pos(p, r.s)), r.s)
        ELSE IF r.val[1].kind.tag = "Name" /\ r.val[1].kind.value = name THEN Ok(<<>>, r.s)
        ELSE Err(UnexpectedToken(r.val[1]), r.s)
  IN after_r(next(p, s))

RECURSIVE parse_item(_, _, _)
RECURSIVE many_loop(_, _, _, _, _, _)
RECURSIVE parse_definitions(_, _, _)
RECURSIVE parse_directives_loop(_, _, _)
RECURSIVE parse_implements_loop(_, _, _)
RECURSIVE parse_union_members_loop(_, _, _)
RECURSIVE parse_directive_locations_loop(_, _, _)
\* The loop of many() without the test for an empty list: a faulty variant.
many_loop_allowing_none(p, s, item, end, allow_none, items) ==
  IF check(p, s, end)
    THEN Ok(items, Advanced(p, s))
    ELSE LET after_r(r) ==
               IF ~r.ok THEN r
               ELSE many_loop(p, r.s, item, end, allow_none, Append(items, r.val))
         IN after_r(parse_item(item, p, Peeked(s)))

\* The loop of many(): items holds what was parsed so far.
many_loop(p, s, item, end, allow_none, items) ==
  IF check(p, s, end)
    THEN IF ~allow_none /\ Len(items) = 0
         THEN Err(UnexpectedToken(PeekItem(p, s)), Advanced(p, s))
         ELSE Ok(items, Advanced(p, s))
    ELSE LET after_r(r) ==
               IF ~r.ok THEN r
               ELSE many_loop(p, r.s, item, end, allow_none, Append(items, r.val))
         IN after_r(parse_item(item, p, Peeked(s)))

\* many(start, parse_fn, end, allow_none); item names parse_fn.
many(p, s, start, item, end, allow_none) ==
  LET after_r(r) ==
        IF ~r.ok THEN r ELSE many_loop(p, r.s, item, end, allow_none, <<>>)
  IN after_r(expect(p, s, start))

parse_name(p, s) ==
  LET start == pos(p, s)
      after_r(r) ==
        IF r.val # <<>> THEN Ok([loc |-> loc(p, r.s, start), value |-> r.val[1]], r.s)
        ELSE unexpected(p, r.s)
  IN after_r(next_if_any_name(p, s))

parse_named_type(p, s) ==
  LET start == pos(p, s)
      after_r(r) ==
        IF ~r.ok THEN r
        ELSE Ok([loc |-> loc(p, r.s, start), name |-> r.val], r.s)
  IN after_r(parse_item("name", p, s))

parse_variable(p, s) ==
  LET start == pos(p, s)
      after_r1(r1) ==
        IF ~r1.ok THEN r1
        ELSE LET after_r2(r2) ==
                   IF ~r2.ok THEN r2
                   ELSE Ok([loc |-> loc(p, r2.s, start), name |-> r2.val], r2.s)
             IN after_r2(parse_item("name", p, r1.s))
  IN after_r1(expect(p, s, "Dollar"))

\* impl From<NullableType> for Type (ast.rs)
TypeFromNullable(nullable) == [tag |-> nullable.tag, node |-> nullable.node]
\* parse_type_reference taking a second `!` after the first: a faulty variant.
parse_type_reference_taking_bangs(p, s) ==
  LET start == pos(p, s)
      after_b(b) ==
        LET after_nullable(nullable) ==
              IF ~nullable.ok THEN nullable
              ELSE LET after_bang(bang) ==
                         IF bang.val # <<>>
                           THEN LET after_more(more) ==
                                      Ok([tag |-> "NonNull",
                                          node |-> [loc |-> loc(p, more.s, start),
                                                    typ |-> nullable.val]],
                                         more.s)
                                IN after_more(next_if(p, bang.s, "Bang"))
                           ELSE Ok(TypeFromNullable(nullable.val), bang.s)
                   IN after_bang(next_if(p, nullable.s, "Bang"))
        IN after_nullable(IF b.val # <<>>
                            THEN LET after_r1(r1) ==
                                       IF ~r1.ok THEN r1
                                       ELSE LET after_r2(r2) ==
                                                  IF ~r2.ok THEN r2
                                                  ELSE Ok([tag |-> "List",
                                                           node |-> [loc |-> loc(p, r2.s, start),
                                                                     typ |-> r1.val]],
                                                          r2.s)
                                            IN after_r2(expect(p, r1.s, "RightBracket"))
                                 IN after_r1(parse_item("type_reference", p, b.s))
                            ELSE LET after_r1(r1) ==
                                       IF ~r1.ok THEN r1
                                       ELSE Ok([tag |-> "Named", node |-> r1.val], r1.s)
                                 IN after_r1(parse_item("named_type", p, b.s)))
  IN after_b(next_if(p, s, "LeftBracket"))

parse_type_reference(p, s) ==
  LET start == pos(p, s)
      after_b(b) ==
        LET after_nullable(nullable) ==
              IF ~nullable.ok THEN nullable
              ELSE LET after_bang(bang) ==
                         IF bang.val # <<>>
                           THEN Ok([tag |-> "NonNull",
                                    node |-> [loc |-> loc(p, bang.s, start), typ |-> nullable.val]],
                                   bang.s)
                           ELSE Ok(TypeFromNullable(nullable.val), bang.s)
                   IN after_bang(next_if(p, nullable.s, "Bang"))
        IN after_nullable(IF b.val # <<>>
                            THEN LET after_r1(r1) ==
                                       IF ~r1.ok THEN r1
                                       ELSE LET after_r2(r2) ==
                                                  IF ~r2.ok THEN r2
                                                  ELSE Ok([tag |-> "List",
                                                           node |-> [loc |-> loc(p, r2.s, start), typ |-> r1.val]],
                                                          r2.s)
                                            IN after_r2(expect(p, r1.s, "RightBracket"))
                                 IN after_r1(parse_item("type_reference", p, b.s))
                            ELSE LET after_r1(r1) ==
                                       IF ~r1.ok THEN r1 ELSE Ok([tag |-> "Named", node |-> r1.val], r1.s)
                                 IN after_r1(parse_item("named_type", p, b.s)))
  IN after_b(next_if(p, s, "LeftBracket"))

parse_list_value(p, s) ==
  LET start == pos(p, s)
      after_r(r) ==
        IF ~r.ok THEN r
        ELSE Ok([loc |-> loc(p, r.s, start), values |-> r.val], r.s)
  IN after_r(many(p, s, "LeftBracket", "value_literal", "RightBracket", TRUE))

parse_object_value(p, s) ==
  LET start == pos(p, s)
      after_r(r) ==
        IF ~r.ok THEN r
        ELSE Ok([loc |-> loc(p, r.s, start), fields |-> r.val], r.s)
  IN after_r(many(p, s, "LeftBrace", "object_field", "RightBrace", TRUE))

\* parse_value_literal without the arm of `true`: a faulty variant.
parse_value_literal_without_true(p, s) ==
  LET start == pos(p, s)
      sp == Peeked(s)
      wrap(tag, r) == IF ~r.ok THEN r ELSE Ok([tag |-> tag, node |-> r.val], r.s)
      after == Advanced(p, sp)
  IN IF check(p, s, "LeftBracket") THEN wrap("List", parse_item("list_value", p, sp))
     ELSE IF check(p, s, "LeftBrace") THEN wrap("Object", parse_item("object_value", p, sp))
     ELSE IF check_name(p, s, Kw_null)
       THEN Ok([tag |-> "Null", node |-> [loc |-> loc(p, after, start)]], after)
     ELSE IF check_name(p, s, Kw_false)
       THEN Ok([tag |-> "Boolean", node |-> [loc |-> loc(p, after, start), value |-> FALSE]],
               after)
     ELSE IF check(p, s, "Dollar") THEN wrap("Variable", parse_item("variable", p, sp))
     ELSE LET after_r(r) ==
                IF ~r.ok THEN r
                ELSE IF r.val = <<>> THEN Err(UnexpectedEnding(pos(p, r.s)), r.s)
                ELSE IF r.val[1].kind.tag = "Int"
                  THEN Ok([tag |-> "Int",
                           node |-> [loc |-> loc(p, r.s, start), value |-> r.val[1].kind.value]],
                          r.s)
                ELSE IF r.val[1].kind.tag = "Float"
                  THEN Ok([tag |-> "Float",
                           node |-> [loc |-> loc(p, r.s, start), value |-> r.val[1].kind.value]],
                          r.s)
                ELSE IF r.val[1].kind.tag = "String"
                  THEN Ok([tag |-> "String",
                           node |-> [loc |-> loc(p, r.s, start), value |-> r.val[1].kind.value]],
                          r.s)
                ELSE IF r.val[1].kind.tag = "Name"
                  THEN Ok([tag |-> "Enum",
                           node |-> [loc |-> loc(p, r.s, start), value |-> r.val[1].kind.value]],
                          r.s)
                ELSE Err(UnexpectedToken(r.val[1]), r.s)
          IN after_r(next(p, sp))

parse_value_literal(p, s) ==
  LET start == pos(p, s)
      sp == Peeked(s)
      wrap(tag, r) == IF ~r.ok THEN r ELSE Ok([tag |-> tag, node |-> r.val], r.s)
      after == Advanced(p, sp)
  IN IF check(p, s, "LeftBracket") THEN wrap("List", parse_item("list_value", p, sp))
     ELSE IF check(p, s, "LeftBrace") THEN wrap("Object", parse_item("object_value", p, sp))
     ELSE IF check_name(p, s, Kw_null)
       THEN Ok([tag |-> "Null", node |-> [loc |-> loc(p, after, start)]], after)
     ELSE IF check_name(p, s, Kw_true)
       THEN Ok([tag |-> "Boolean", node |-> [loc |-> loc(p, after, start), value |-> TRUE]],
               after)
     ELSE IF check_name(p, s, Kw_false)
       THEN Ok([tag |-> "Boolean", node |-> [loc |-> loc(p, after, start), value |-> FALSE]],
               after)
     ELSE IF check(p, s, "Dollar") THEN wrap("Variable", parse_item("variable", p, sp))
     ELSE LET after_r(r) ==
                IF ~r.ok THEN r
                ELSE IF r.val = <<>> THEN Err(UnexpectedEnding(pos(p, r.s)), r.s)
                ELSE IF r.val[1].kind.tag = "Int"
                  THEN Ok([tag |-> "Int",
                           node |-> [loc |-> loc(p, r.s, start), value |-> r.val[1].kind.value]],
                          r.s)
                ELSE IF r.val[1].kind.tag = "Float"
                  THEN Ok([tag |-> "Float",
                           node |-> [loc |-> loc(p, r.s, start), value |-> r.val[1].kind.value]],
                          r.s)
                ELSE IF r.val[1].kind.tag = "String"
                  THEN Ok([tag |-> "String",
                           node |-> [loc |-> loc(p, r.s, start), value |-> r.val[1].kind.value]],
                          r.s)
                ELSE IF r.val[1].kind.tag = "Name"
                  THEN Ok([tag |-> "Enum",
                           node |-> [loc |-> loc(p, r.s, start), value |-> r.val[1].kind.value]],
                          r.s)
                ELSE Err(UnexpectedToken(r.val[1]), r.s)
          IN after_r(next(p, sp))

parse_object_field(p, s) ==
  LET start == pos(p, s)
      after_r1(r1) ==
        IF ~r1.ok THEN r1
        ELSE LET after_r2(r2) ==
                   IF ~r2.ok THEN r2
                   ELSE LET after_r3(r3) ==
                              IF ~r3.ok THEN r3
                              ELSE Ok([loc |-> loc(p, r3.s, start), name |-> r1.val, value |-> r3.val],
                                      r3.s)
                        IN after_r3(parse_item("value_literal", p, r2.s))
             IN after_r2(expect(p, r1.s, "Colon"))
  IN after_r1(parse_item("name", p, s))

parse_argument(p, s) ==
  LET start == pos(p, s)
      after_r1(r1) ==
        IF ~r1.ok THEN r1
        ELSE LET after_r2(r2) ==
                   IF ~r2.ok THEN r2
                   ELSE LET after_r3(r3) ==
                              IF ~r3.ok THEN r3
                              ELSE Ok([loc |-> loc(p, r3.s, start), name |-> r1.val, value |-> r3.val],
                                      r3.s)
                        IN after_r3(parse_item("value_literal", p, r2.s))
             IN after_r2(expect(p, r1.s, "Colon"))
  IN after_r1(parse_item("name", p, s))

parse_arguments(p, s) == many(p, s, "LeftParen", "argument", "RightParen", FALSE)

\* Arguments? as the callers write it: parsed when a `(` is next, else empty.
parse_optional_arguments(p, s) ==
  IF check(p, s, "LeftParen") THEN parse_item("arguments", p, Peeked(s)) ELSE Ok(<<>>, Peeked(s))

parse_directive(p, s) ==
  LET start == pos(p, s)
      after_r1(r1) ==
        IF ~r1.ok THEN r1
        ELSE LET after_r2(r2) ==
                   IF ~r2.ok THEN r2
                   ELSE LET after_r3(r3) ==
                              IF ~r3.ok THEN r3
                              ELSE Ok([loc |-> loc(p, r3.s, start), name |-> r2.val,
                                       arguments |-> r3.val], r3.s)
                        IN after_r3(parse_item("optional_arguments", p, r2.s))
             IN after_r2(parse_item("name", p, r1.s))
  IN after_r1(expect(p, s, "At"))

\* The loop of parse_directives().
\* A faulty variant of parse_directives_loop: the loop leaves with the cursor
\* it was entered with, as if its iterations had consumed nothing.
parse_directives_loop_standing(p, s, directives) ==
  IF ~check(p, s, "At") THEN Ok(directives, Peeked(s))
  ELSE LET after_r(r) ==
             IF ~r.ok THEN r ELSE Ok(Append(directives, r.val), Peeked(s))
       IN after_r(parse_item("directive", p, Peeked(s)))

parse_directives_loop(p, s, directives) ==
  IF ~check(p, s, "At") THEN Ok(directives, Peeked(s))
  ELSE LET after_r(r) ==
             IF ~r.ok THEN r ELSE parse_directives_loop(p, r.s, Append(directives, r.val))
       IN after_r(parse_item("directive", p, Peeked(s)))

parse_directives(p, s) == parse_directives_loop(p, s, <<>>)

parse_variable_definition(p, s) ==
  LET start == pos(p, s)
      after_r1(r1) ==
        IF ~r1.ok THEN r1
        ELSE LET after_r2(r2) ==
                   IF ~r2.ok THEN r2
                ELSE LET after_r3(r3) ==
                           IF ~r3.ok THEN r3
                        ELSE LET after_eq(eq) ==
                                   LET after_r4(r4) ==
                                         IF ~r4.ok THEN r4
                                      ELSE Ok([loc |-> loc(p, r4.s, start), variable |-> r1.val, typ |-> r3.val,
                                               default_value |-> r4.val], r4.s)
                                   IN after_r4(IF eq.val # <<>>
                                               THEN LET after_v(v) ==
                                                          IF ~v.ok THEN v ELSE Ok(<<v.val>>, v.s)
                                                    IN after_v(parse_item("value_literal", p, eq.s))
                                               ELSE Ok(<<>>, eq.s))
                             IN after_eq(next_if(p, r3.s, "Equals"))
                     IN after_r3(parse_item("type_reference", p, r2.s))
             IN after_r2(expect(p, r1.s, "Colon"))
  IN after_r1(parse_item("variable", p, s))

parse_variable_definitions(p, s) ==
  many(p, s, "LeftParen", "variable_definition", "RightParen", FALSE)

parse_selection_set(p, s) ==
  LET start == pos(p, s)
      after_r(r) ==
        IF ~r.ok THEN r
        ELSE Ok([loc |-> loc(p, r.s, start), selections |-> r.val], r.s)
  IN after_r(many(p, s, "LeftBrace", "selection", "RightBrace", FALSE))

\* parse_field with the alias and the name exchanged: a faulty variant.
parse_field_exchanged(p, s) ==
  LET start == pos(p, s)
      after_r1(r1) ==
        IF ~r1.ok THEN r1
        ELSE LET after_colon(colon) ==
                   LET after_r2(r2) ==
                         LET alias == IF colon.val # <<>> THEN <<r2.val>> ELSE <<>>
                         IN IF ~r2.ok THEN r2
                         ELSE LET after_r3(r3) ==
                                    IF ~r3.ok THEN r3
                                 ELSE LET after_r4(r4) ==
                                            IF ~r4.ok THEN r4
                                         ELSE LET after_r5(r5) ==
                                                    IF ~r5.ok THEN r5
                                                 ELSE Ok([loc |-> loc(p, r5.s, start), alias |-> alias, name |-> r1.val,
                                                          arguments |-> r3.val, directives |-> r4.val, selection_set |-> r5.val], r5.s)
                                              IN after_r5(IF check(p, r4.s, "LeftBrace")
                                                          THEN LET after_ss(ss) ==
                                                                     IF ~ss.ok THEN ss ELSE Ok(<<ss.val>>, ss.s)
                                                               IN after_ss(parse_item("selection_set", p, Peeked(r4.s)))
                                                          ELSE Ok(<<>>, Peeked(r4.s)))
                                      IN after_r4(parse_item("directives", p, r3.s))
                              IN after_r3(parse_item("optional_arguments", p, r2.s))
                   IN after_r2(IF colon.val # <<>> THEN parse_item("name", p, colon.s) ELSE Ok(r1.val, colon.s))
             IN after_colon(next_if(p, r1.s, "Colon"))
  IN after_r1(parse_item("name", p, s))

parse_field(p, s) ==
  LET start == pos(p, s)
      after_r1(r1) ==
        IF ~r1.ok THEN r1
        ELSE LET after_colon(colon) ==
                   LET after_r2(r2) ==
                         LET alias == IF colon.val # <<>> THEN <<r1.val>> ELSE <<>>
                         IN IF ~r2.ok THEN r2
                         ELSE LET after_r3(r3) ==
                                    IF ~r3.ok THEN r3
                                 ELSE LET after_r4(r4) ==
                                            IF ~r4.ok THEN r4
                                         ELSE LET after_r5(r5) ==
                                                    IF ~r5.ok THEN r5
                                                 ELSE Ok([loc |-> loc(p, r5.s, start), alias |-> alias, name |-> r2.val,
                                                          arguments |-> r3.val, directives |-> r4.val, selection_set |-> r5.val], r5.s)
                                              IN after_r5(IF check(p, r4.s, "LeftBrace")
                                                          THEN LET after_ss(ss) ==
                                                                     IF ~ss.ok THEN ss ELSE Ok(<<ss.val>>, ss.s)
                                                               IN after_ss(parse_item("selection_set", p, Peeked(r4.s)))
                                                          ELSE Ok(<<>>, Peeked(r4.s)))
                                      IN after_r4(parse_item("directives", p, r3.s))
                              IN after_r3(parse_item("optional_arguments", p, r2.s))
                   IN after_r2(IF colon.val # <<>> THEN parse_item("name", p, colon.s) ELSE Ok(r1.val, colon.s))
             IN after_colon(next_if(p, r1.s, "Colon"))
  IN after_r1(parse_item("name", p, s))

\* parse_fragment taking any name after the ellipsis as the name of a
\* fragment spread, `on` included: a faulty variant.
parse_fragment_spreading_on(p, s) ==
  LET start == pos(p, s)
      after_r1(r1) ==
        IF ~r1.ok THEN r1
        ELSE LET start_after_ellipsis == pos(p, r1.s)
                 spread == check_any_name(p, r1.s)
                 after_nm(nm) ==
                   IF spread
                     THEN LET name == [loc |-> loc(p, nm.s, start_after_ellipsis), value |-> nm.val[1]]
                              after_d(d) ==
                                IF ~d.ok THEN d
                                ELSE Ok([tag |-> "FragmentSpread",
                                         node |-> [loc |-> loc(p, d.s, start), name |-> name,
                                                   directives |-> d.val]], d.s)
                          IN after_d(parse_item("directives", p, nm.s))
                     ELSE LET after_r3(r3) ==
                                IF ~r3.ok THEN r3
                                ELSE LET after_r4(r4) ==
                                           IF ~r4.ok THEN r4
                                           ELSE Ok([tag |-> "InlineFragment",
                                                    node |-> [loc |-> loc(p, r4.s, start),
                                                              type_condition |-> <<>>,
                                                              directives |-> r3.val,
                                                              selection_set |-> r4.val]], r4.s)
                                     IN after_r4(parse_item("selection_set", p, r3.s))
                          IN after_r3(parse_item("directives", p, Peeked(r1.s)))
             IN after_nm(next_if_any_name(p, r1.s))
  IN after_r1(expect(p, s, "Ellipsis"))

\* parse_fragment(): FragmentSpread or InlineFragment, after `...`.
parse_fragment(p, s) ==
  LET start == pos(p, s)
      after_r1(r1) ==
        IF ~r1.ok THEN r1
        ELSE LET start_after_ellipsis == pos(p, r1.s)
                 spread == ~check_name(p, r1.s, Kw_on) /\ check_any_name(p, r1.s)
                 after_nm(nm) ==
                   IF spread
                     THEN LET name == [loc |-> loc(p, nm.s, start_after_ellipsis), value |-> nm.val[1]]
                              after_d(d) ==
                                IF ~d.ok THEN d
                                ELSE Ok([tag |-> "FragmentSpread",
                                         node |-> [loc |-> loc(p, d.s, start), name |-> name,
                                                   directives |-> d.val]], d.s)
                          IN after_d(parse_item("directives", p, nm.s))
                     ELSE LET after_on(on) ==
                                LET after_r2(r2) ==
                                      IF ~r2.ok THEN r2
                                   ELSE LET after_r3(r3) ==
                                              IF ~r3.ok THEN r3
                                           ELSE LET after_r4(r4) ==
                                                      IF ~r4.ok THEN r4
                                                   ELSE Ok([tag |-> "InlineFragment",
                                                            node |-> [loc |-> loc(p, r4.s, start), type_condition |-> r2.val,
                                                                      directives |-> r3.val, selection_set |-> r4.val]], r4.s)
                                                IN after_r4(parse_item("selection_set", p, r3.s))
                                        IN after_r3(parse_item("directives", p, r2.s))
                                IN after_r2(IF on.val
                                            THEN LET after_t(t) ==
                                                       IF ~t.ok THEN t ELSE Ok(<<t.val>>, t.s)
                                                 IN after_t(parse_item("named_type", p, on.s))
                                            ELSE Ok(<<>>, on.s))
                          IN after_on(next_if_name(p, Peeked(r1.s), Kw_on))
             IN after_nm(next_if_any_name(p, r1.s))
  IN after_r1(expect(p, s, "Ellipsis"))

parse_selection(p, s) ==
  IF check(p, s, "Ellipsis") THEN parse_item("fragment", p, Peeked(s))
  ELSE LET after_r(r) ==
             IF ~r.ok THEN r ELSE Ok([tag |-> "Field", node |-> r.val], r.s)
       IN after_r(parse_item("field", p, Peeked(s)))

parse_fragment_name(p, s) ==
  IF check_name(p, s, Kw_ok) THEN unexpected(p, Peeked(s)) ELSE parse_item("name", p, Peeked(s))

parse_fragment_definition(p, s) ==
  LET start == pos(p, s)
      after_r1(r1) ==
        IF ~r1.ok THEN r1
        ELSE LET after_r2(r2) ==
                   IF ~r2.ok THEN r2
                ELSE LET after_r3(r3) ==
                           IF ~r3.ok THEN r3
                        ELSE LET after_r4(r4) ==
                                   IF ~r4.ok THEN r4
                                ELSE LET after_r5(r5) ==
                                           IF ~r5.ok THEN r5
                                        ELSE LET after_r6(r6) ==
                                                   IF ~r6.ok THEN r6
                                                ELSE Ok([loc |-> loc(p, r6.s, start), name |-> r2.val, type_condition |-> r4.val,
                                                         directives |-> r5.val, selection_set |-> r6.val], r6.s)
                                             IN after_r6(parse_item("selection_set", p, r5.s))
                                     IN after_r5(parse_item("directives", p, r4.s))
                             IN after_r4(parse_item("named_type", p, r3.s))
                     IN after_r3(expect_name(p, r2.s, Kw_on))
             IN after_r2(parse_item("fragment_name", p, r1.s))
  IN after_r1(expect_name(p, s, Kw_fragment))
\* parse_operation_type with the arms of `query` and `mutation` exchanged: a
\* faulty variant.
parse_operation_type_exchanged(p, s) ==
  LET after_r(r) ==
        IF r.val # <<>> /\ r.val[1] = Kw_query THEN Ok("Mutation", r.s)
        ELSE IF r.val # <<>> /\ r.val[1] = Kw_mutation THEN Ok("Query", r.s)
        ELSE IF p.subscriptions /\ r.val # <<>> /\ r.val[1] = Kw_subscription
          THEN Ok("Subscription", r.s)
        ELSE unexpected(p, r.s)
  IN after_r(next_if_any_name(p, s))

parse_operation_type(p, s) ==
  LET after_r(r) ==
        IF r.val # <<>> /\ r.val[1] = Kw_query THEN Ok("Query", r.s)
        ELSE IF r.val # <<>> /\ r.val[1] = Kw_mutation THEN Ok("Mutation", r.s)
        ELSE IF p.subscriptions /\ r.val # <<>> /\ r.val[1] = Kw_subscription
          THEN Ok("Subscription", r.s)
        ELSE unexpected(p, r.s)
  IN after_r(next_if_any_name(p, s))

parse_operation_definition(p, s) ==
  LET start == pos(p, s)
  IN IF check(p, s, "LeftBrace")
       THEN LET after_ss(ss) ==
                  IF ~ss.ok THEN ss
                  ELSE Ok([loc |-> loc(p, ss.s, start), operation |-> "Query", name |-> <<>>,
                           variable_definitions |-> <<>>, directives |-> <<>>,
                           selection_set |-> ss.val], ss.s)
            IN after_ss(parse_item("selection_set", p, Peeked(s)))
       ELSE LET after_r1(r1) ==
                  IF ~r1.ok THEN r1
               ELSE LET name_start == pos(p, r1.s)
                        after_nm(nm) ==
                          LET name == IF nm.val # <<>>
                                      THEN <<[loc |-> loc(p, nm.s, name_start), value |-> nm.val[1]]>>
                                      ELSE <<>>
                              after_r2(r2) ==
                                IF ~r2.ok THEN r2
                             ELSE LET after_r3(r3) ==
                                        IF ~r3.ok THEN r3
                                     ELSE LET after_r4(r4) ==
                                                IF ~r4.ok THEN r4
                                             ELSE Ok([loc |-> loc(p, r4.s, start), operation |-> r1.val, name |-> name,
                                                      variable_definitions |-> r2.val, directives |-> r3.val,
                                                      selection_set |-> r4.val], r4.s)
                                          IN after_r4(parse_item("selection_set", p, r3.s))
                                  IN after_r3(parse_item("directives", p, r2.s))
                          IN after_r2(IF check(p, nm.s, "LeftParen")
                                      THEN parse_item("variable_definitions", p, Peeked(nm.s))
                                      ELSE Ok(<<>>, Peeked(nm.s)))
                    IN after_nm(next_if_any_name(p, r1.s))
            IN after_r1(parse_item("operation_type", p, Peeked(s)))

(***************************************************************************)
(* Parser, type system definitions (feature "type_system")                 *)
(***************************************************************************)
parse_operation_type_definition(p, s) ==
  LET start == pos(p, s)
      after_r1(r1) ==
        IF ~r1.ok THEN r1
        ELSE LET after_r2(r2) ==
                   IF ~r2.ok THEN r2
                ELSE LET after_r3(r3) ==
                           IF ~r3.ok THEN r3
                        ELSE Ok([loc |-> loc(p, r3.s, start), operation |-> r1.val, typ |-> r3.val], r3.s)
                     IN after_r3(parse_item("named_type", p, r2.s))
             IN after_r2(expect(p, r1.s, "Colon"))
  IN after_r1(parse_item("operation_type", p, s))

parse_schema_definition(p, s) ==
  LET start == pos(p, s)
      after_r1(r1) ==
        IF ~r1.ok THEN r1
        ELSE LET after_r2(r2) ==
                   IF ~r2.ok THEN r2
                ELSE LET after_r3(r3) ==
                           IF ~r3.ok THEN r3
                        ELSE Ok([loc |-> loc(p, r3.s, start), directives |-> r2.val,
                                 operation_types |-> r3.val], r3.s)
                     IN after_r3(many(p, r2.s, "LeftBrace", "operation_type_definition", "RightBrace", FALSE))
             IN after_r2(parse_item("directives", p, r1.s))
  IN after_r1(expect_name(p, s, Kw_schema))

parse_scalar_type_definition(p, s) ==
  LET start == pos(p, s)
      after_r1(r1) ==
        IF ~r1.ok THEN r1
        ELSE LET after_r2(r2) ==
                   IF ~r2.ok THEN r2
                ELSE LET after_r3(r3) ==
                           IF ~r3.ok THEN r3
                        ELSE Ok([loc |-> loc(p, r3.s, start), name |-> r2.val, directives |-> r3.val], r3.s)
                     IN after_r3(parse_item("directives", p, r2.s))
             IN after_r2(parse_item("name", p, r1.s))
  IN after_r1(expect_name(p, s, Kw_scalar))

\* The loop of parse_implements_interfaces().
parse_implements_loop(p, s, types) ==
  LET start == pos(p, s)
      after_r(r) ==
        IF r.val # <<>>
          THEN parse_implements_loop(p, r.s,
                 Append(types, [loc |-> loc(p, r.s, start),
                                name |-> [loc |-> loc(p, r.s, start), value |-> r.val[1]]]))
          ELSE Ok(types, r.s)
  IN after_r(next_if_any_name(p, s))

parse_implements_interfaces(p, s) ==
  LET after_r(r) ==
        IF ~r.ok THEN r ELSE parse_implements_loop(p, r.s, <<>>)
  IN after_r(expect_name(p, s, Kw_implements))

parse_input_value_definition(p, s) ==
  LET start == pos(p, s)
      after_r1(r1) ==
        IF ~r1.ok THEN r1
        ELSE LET after_r2(r2) ==
                   IF ~r2.ok THEN r2
                ELSE LET after_r3(r3) ==
                           IF ~r3.ok THEN r3
                        ELSE LET after_eq(eq) ==
                                   LET after_r4(r4) ==
                                         IF ~r4.ok THEN r4
                                      ELSE LET after_r5(r5) ==
                                                 IF ~r5.ok THEN r5
                                              ELSE Ok([loc |-> loc(p, r5.s, start), name |-> r1.val, typ |-> r3.val,
                                                       default_value |-> r4.val, directives |-> r5.val], r5.s)
                                           IN after_r5(parse_item("directives", p, r4.s))
                                   IN after_r4(IF eq.val # <<>>
                                               THEN LET after_v(v) ==
                                                          IF ~v.ok THEN v ELSE Ok(<<v.val>>, v.s)
                                                    IN after_v(parse_item("value_literal", p, eq.s))
                                               ELSE Ok(<<>>, eq.s))
                             IN after_eq(next_if(p, r3.s, "Equals"))
                     IN after_r3(parse_item("type_reference", p, r2.s))
             IN after_r2(expect(p, r1.s, "Colon"))
  IN after_r1(parse_item("name", p, s))

parse_argument_definitions(p, s) ==
  many(p, s, "LeftParen", "input_value_definition", "RightParen", FALSE)

parse_field_definition(p, s) ==
  LET start == pos(p, s)
      after_r1(r1) ==
        IF ~r1.ok THEN r1
        ELSE LET after_r2(r2) ==
                   IF ~r2.ok THEN r2
                ELSE LET after_r3(r3) ==
                           IF ~r3.ok THEN r3
                        ELSE LET after_r4(r4) ==
                                   IF ~r4.ok THEN r4
                                ELSE LET after_r5(r5) ==
                                           IF ~r5.ok THEN r5
                                        ELSE Ok([loc |-> loc(p, r5.s, start), name |-> r1.val, arguments |-> r2.val,
                                                 typ |-> r4.val, directives |-> r5.val], r5.s)
                                     IN after_r5(parse_item("directives", p, r4.s))
                             IN after_r4(parse_item("type_reference", p, r3.s))
                     IN after_r3(expect(p, r2.s, "Colon"))
             IN after_r2(IF check(p, r1.s, "LeftParen")
                         THEN parse_item("argument_definitions", p, Peeked(r1.s))
                         ELSE Ok(<<>>, Peeked(r1.s)))
  IN after_r1(parse_item("name", p, s))

parse_object_type_definition(p, s) ==
  LET start == pos(p, s)
      after_r1(r1) ==
        IF ~r1.ok THEN r1
        ELSE LET after_r2(r2) ==
                   IF ~r2.ok THEN r2
                ELSE LET after_r3(r3) ==
                           IF ~r3.ok THEN r3
                        ELSE LET after_r4(r4) ==
                                   IF ~r4.ok THEN r4
                                ELSE LET after_r5(r5) ==
                                           IF ~r5.ok THEN r5
                                        ELSE Ok([loc |-> loc(p, r5.s, start), name |-> r2.val, interfaces |-> r3.val,
                                                 directives |-> r4.val, fields |-> r5.val], r5.s)
                                     IN after_r5(many(p, r4.s, "LeftBrace", "field_definition", "RightBrace", TRUE))
                             IN after_r4(parse_item("directives", p, r3.s))
                     IN after_r3(IF check_name(p, r2.s, Kw_implements)
                                 THEN parse_item("implements_interfaces", p, Peeked(r2.s))
                                 ELSE Ok(<<>>, Peeked(r2.s)))
             IN after_r2(parse_item("name", p, r1.s))
  IN after_r1(expect_name(p, s, Kw_type))

parse_interface_type_definition(p, s) ==
  LET start == pos(p, s)
      after_r1(r1) ==
        IF ~r1.ok THEN r1
        ELSE LET after_r2(r2) ==
                   IF ~r2.ok THEN r2
                ELSE LET after_r3(r3) ==
                           IF ~r3.ok THEN r3
                        ELSE LET after_r4(r4) ==
                                   IF ~r4.ok THEN r4
                                ELSE Ok([loc |-> loc(p, r4.s, start), name |-> r2.val, directives |-> r3.val,
                                         fields |-> r4.val], r4.s)
                             IN after_r4(many(p, r3.s, "LeftBrace", "field_definition", "RightBrace", FALSE))
                     IN after_r3(parse_item("directives", p, r2.s))
             IN after_r2(parse_item("name", p, r1.s))
  IN after_r1(expect_name(p, s, Kw_interface))
\* The loop of parse_union_members() ending at a pipe that no name follows:
\* a faulty variant.
parse_union_members_loop_trailing(p, s, members) ==
  LET after_r(r) ==
        IF ~r.ok THEN r
        ELSE LET after_pipe(pipe) ==
                   IF pipe.val = <<>> \/ ~check_any_name(p, pipe.s)
                     THEN Ok(Append(members, r.val), pipe.s)
                   ELSE parse_union_members_loop(p, pipe.s, Append(members, r.val))
             IN after_pipe(next_if(p, r.s, "Pipe"))
  IN after_r(parse_item("named_type", p, s))

\* The loop of parse_union_members().
parse_union_members_loop(p, s, members) ==
  LET after_r(r) ==
        IF ~r.ok THEN r
        ELSE LET after_pipe(pipe) ==
                   IF pipe.val = <<>> THEN Ok(Append(members, r.val), pipe.s)
                   ELSE parse_union_members_loop(p, pipe.s, Append(members, r.val))
             IN after_pipe(next_if(p, r.s, "Pipe"))
  IN after_r(parse_item("named_type", p, s))

parse_union_members(p, s) == parse_union_members_loop(p, s, <<>>)

parse_union_type_definition(p, s) ==
  LET start == pos(p, s)
      after_r1(r1) ==
        IF ~r1.ok THEN r1
        ELSE LET after_r2(r2) ==
                   IF ~r2.ok THEN r2
                ELSE LET after_r3(r3) ==
                           IF ~r3.ok THEN r3
                        ELSE LET after_r4(r4) ==
                                   IF ~r4.ok THEN r4
                                ELSE LET after_r5(r5) ==
                                           IF ~r5.ok THEN r5
                                        ELSE Ok([loc |-> loc(p, r5.s, start), name |-> r2.val, directives |-> r3.val,
                                                 types |-> r5.val], r5.s)
                                     IN after_r5(parse_item("union_members", p, r4.s))
                             IN after_r4(expect(p, r3.s, "Equals"))
                     IN after_r3(parse_item("directives", p, r2.s))
             IN after_r2(parse_item("name", p, r1.s))
  IN after_r1(expect_name(p, s, Kw_union))

parse_enum_value_definition(p, s) ==
  LET start == pos(p, s)
      after_r1(r1) ==
        IF ~r1.ok THEN r1
        ELSE LET after_r2(r2) ==
                   IF ~r2.ok THEN r2
                ELSE Ok([loc |-> loc(p, r2.s, start), name |-> r1.val, directives |-> r2.val], r2.s)
             IN after_r2(parse_item("directives", p, r1.s))
  IN after_r1(parse_item("name", p, s))

parse_enum_type_definition(p, s) ==
  LET start == pos(p, s)
      after_r1(r1) ==
        IF ~r1.ok THEN r1
        ELSE LET after_r2(r2) ==
                   IF ~r2.ok THEN r2
                ELSE LET after_r3(r3) ==
                           IF ~r3.ok THEN r3
                        ELSE LET after_r4(r4) ==
                                   IF ~r4.ok THEN r4
                                ELSE Ok([loc |-> loc(p, r4.s, start), name |-> r2.val, directives |-> r3.val,
                                         values |-> r4.val], r4.s)
                             IN after_r4(many(p, r3.s, "LeftBrace", "enum_value_definition", "RightBrace", FALSE))
                     IN after_r3(parse_item("directives", p, r2.s))
             IN after_r2(parse_item("name", p, r1.s))
  IN after_r1(expect_name(p, s, Kw_enum))

parse_input_object_type_definition(p, s) ==
  LET start == pos(p, s)
      after_r1(r1) ==
        IF ~r1.ok THEN r1
        ELSE LET after_r2(r2) ==
                   IF ~r2.ok THEN r2
                ELSE LET after_r3(r3) ==
                           IF ~r3.ok THEN r3
                        ELSE LET after_r4(r4) ==
                                   IF ~r4.ok THEN r4
                                ELSE Ok([loc |-> loc(p, r4.s, start), name |-> r2.val, directives |-> r3.val,
                                         fields |-> r4.val], r4.s)
                             IN after_r4(many(p, r3.s, "LeftBrace", "input_value_definition", "RightBrace", FALSE))
                     IN after_r3(parse_item("directives", p, r2.s))
             IN after_r2(parse_item("name", p, r1.s))
  IN after_r1(expect_name(p, s, Kw_input))

parse_type_extension_definition(p, s) ==
  LET start == pos(p, s)
      after_r1(r1) ==
        IF ~r1.ok THEN r1
        ELSE LET after_r2(r2) ==
                   IF ~r2.ok THEN r2
                ELSE Ok([loc |-> loc(p, r2.s, start), definition |-> r2.val], r2.s)
             IN after_r2(parse_item("object_type_definition", p, r1.s))
  IN after_r1(expect_name(p, s, Kw_extend))

\* The loop of parse_directive_locations().
parse_directive_locations_loop(p, s, locations) ==
  LET after_r(r) ==
        IF ~r.ok THEN r
        ELSE LET after_pipe(pipe) ==
                   IF pipe.val = <<>> THEN Ok(Append(locations, r.val), pipe.s)
                   ELSE parse_directive_locations_loop(p, pipe.s, Append(locations, r.val))
             IN after_pipe(next_if(p, r.s, "Pipe"))
  IN after_r(parse_item("name", p, s))

parse_directive_locations(p, s) == parse_directive_locations_loop(p, s, <<>>)

parse_directive_definition(p, s) ==
  LET start == pos(p, s)
      after_r1(r1) ==
        IF ~r1.ok THEN r1
        ELSE LET after_r2(r2) ==
                   IF ~r2.ok THEN r2
                ELSE LET after_r3(r3) ==
                           IF ~r3.ok THEN r3
                        ELSE LET after_r4(r4) ==
                                   IF ~r4.ok THEN r4
                                ELSE LET after_r5(r5) ==
                                           IF ~r5.ok THEN r5
                                        ELSE LET after_r6(r6) ==
                                                   IF ~r6.ok THEN r6
                                                ELSE Ok([loc |-> loc(p, r6.s, start), name |-> r3.val, arguments |-> r4.val,
                                                         locations |-> r6.val], r6.s)
                                             IN after_r6(parse_item("directive_locations", p, r5.s))
                                     IN after_r5(expect_name(p, r4.s, Kw_on))
                             IN after_r4(IF check(p, r3.s, "LeftParen")
                                         THEN parse_item("argument_definitions", p, Peeked(r3.s))
                                         ELSE Ok(<<>>, Peeked(r3.s)))
                     IN after_r3(parse_item("name", p, r2.s))
             IN after_r2(expect(p, r1.s, "At"))
  IN after_r1(expect_name(p, s, Kw_directive))

parse_type_system_definition(p, s) ==
  LET sp == Peeked(s)
      wrap(tag, r) == IF ~r.ok THEN r ELSE Ok([tag |-> tag, node |-> r.val], r.s)
      typeDef(tag, r) == IF ~r.ok THEN r
                         ELSE Ok([tag |-> "Type", node |-> [tag |-> tag, node |-> r.val]], r.s)
  IN IF check_name(p, s, Kw_schema) THEN wrap("Schema", parse_item("schema_definition", p, sp))
     ELSE IF check_name(p, s, Kw_scalar)
       THEN typeDef("Scalar", parse_item("scalar_type_definition", p, sp))
     ELSE IF check_name(p, s, Kw_type)
       THEN typeDef("Object", parse_item("object_type_definition", p, sp))
     ELSE IF check_name(p, s, Kw_interface)
       THEN typeDef("Interface", parse_item("interface_type_definition", p, sp))
     ELSE IF check_name(p, s, Kw_union)
       THEN typeDef("Union", parse_item("union_type_definition", p, sp))
     ELSE IF check_name(p, s, Kw_enum)
       THEN typeDef("Enum", parse_item("enum_type_definition", p, sp))
     ELSE IF check_name(p, s, Kw_input)
       THEN typeDef("InputObject", parse_item("input_object_type_definition", p, sp))
     ELSE IF check_name(p, s, Kw_extend)
       THEN wrap("TypeExtension", parse_item("type_extension_definition", p, sp))
     ELSE IF check_name(p, s, Kw_directive)
       THEN wrap("Directive", parse_item("directive_definition", p, sp))
     ELSE unexpected(p, sp)

(***************************************************************************)
(* Parser, document                                                        *)
(***************************************************************************)
TypeSystemKeywords ==
  {Kw_schema, Kw_scalar, Kw_type, Kw_interface, Kw_union, Kw_enum, Kw_input,
   Kw_extend, Kw_directive}
\* parse_definition parsing a type-system definition whether or not the
\* type_system feature is there: a faulty variant.
parse_definition_ungated(p, s) ==
  LET sp == Peeked(s)
      wrap(tag, r) == IF ~r.ok THEN r ELSE Ok([tag |-> tag, node |-> r.val], r.s)
  IN IF \/ check(p, s, "LeftBrace")
        \/ check_name(p, s, Kw_query)
        \/ check_name(p, s, Kw_mutation)
        \/ check_name(p, s, Kw_subscription)
       THEN wrap("Operation", parse_item("operation_definition", p, sp))
     ELSE IF check_name(p, s, Kw_fragment)
       THEN wrap("Fragment", parse_item("fragment_definition", p, sp))
     ELSE IF \E kw \in TypeSystemKeywords : check_name(p, s, kw)
       THEN wrap("TypeSystem", parse_item("type_system_definition", p, sp))
     ELSE unexpected(p, sp)

parse_definition(p, s) ==
  LET sp == Peeked(s)
      wrap(tag, r) == IF ~r.ok THEN r ELSE Ok([tag |-> tag, node |-> r.val], r.s)
  IN IF \/ check(p, s, "LeftBrace")
        \/ check_name(p, s, Kw_query)
        \/ check_name(p, s, Kw_mutation)
        \/ check_name(p, s, Kw_subscription)
       THEN wrap("Operation", parse_item("operation_definition", p, sp))
     ELSE IF check_name(p, s, Kw_fragment)
       THEN wrap("Fragment", parse_item("fragment_definition", p, sp))
     ELSE IF \E kw \in TypeSystemKeywords : check_name(p, s, kw)
       THEN IF p.type_system
            THEN wrap("TypeSystem", parse_item("type_system_definition", p, sp))
            ELSE unexpected(p, sp)
     ELSE unexpected(p, sp)
\* The loop of parse_document() ending at a definition that fails, with the
\* definitions before it: a faulty variant.
parse_definitions_recovering(p, s, definitions) ==
  IF HasNext(p, s)
    THEN LET after_r(r) ==
               IF ~r.ok THEN (IF definitions = <<>> THEN r ELSE Ok(definitions, r.s))
               ELSE parse_definitions(p, r.s, Append(definitions, r.val))
         IN after_r(parse_item("definition", p, Peeked(s)))
    ELSE Ok(definitions, Peeked(s))

\* The loop of parse_document().
\* A faulty variant of parse_definitions: the loop leaves after its first
\* definition, whatever tokens remain.
parse_definitions_once(p, s, definitions) ==
  IF HasNext(p, s)
    THEN LET after_r(r) ==
               IF ~r.ok THEN r ELSE Ok(Append(definitions, r.val), r.s)
         IN after_r(parse_item("definition", p, Peeked(s)))
    ELSE Ok(definitions, Peeked(s))

parse_definitions(p, s, definitions) ==
  IF HasNext(p, s)
    THEN LET after_r(r) ==
               IF ~r.ok THEN r ELSE parse_definitions(p, r.s, Append(definitions, r.val))
         IN after_r(parse_item("definition", p, Peeked(s)))
    ELSE Ok(definitions, Peeked(s))
\* parse_document without the test for no definitions: a faulty variant.
parse_document_allowing_none(p, s) ==
  LET start == pos(p, s)
      after_r(r) ==
        IF ~r.ok THEN r
        ELSE Ok([loc |-> loc(p, r.s, start), definitions |-> r.val], r.s)
  IN after_r(parse_definitions(p, s, <<>>))

parse_document(p, s) ==
  LET start == pos(p, s)
      after_r(r) ==
        IF ~r.ok THEN r
        ELSE IF Len(r.val) < 1 THEN Err(UnexpectedEnding(pos(p, r.s)), r.s)
        ELSE Ok([loc |-> loc(p, r.s, start), definitions |-> r.val], r.s)
  IN after_r(parse_definitions(p, s, <<>>))

\* The parse functions, by name: the parse_fn argument of many(), and the
\* calls of one parse function by another.
parse_item(item, p, s) ==
  CASE item = "name" -> parse_name(p, s)
    [] item = "named_type" -> parse_named_type(p, s)
    [] item = "variable" -> parse_variable(p, s)
    [] item = "type_reference" -> parse_type_reference(p, s)
    [] item = "list_value" -> parse_list_value(p, s)
    [] item = "object_value" -> parse_object_value(p, s)
    [] item = "value_literal" -> parse_value_literal(p, s)
    [] item = "object_field" -> parse_object_field(p, s)
    [] item = "argument" -> parse_argument(p, s)
    [] item = "arguments" -> parse_arguments(p, s)
    [] item = "optional_arguments" -> parse_optional_arguments(p, s)
    [] item = "directive" -> parse_directive(p, s)
    [] item = "directives" -> parse_directives(p, s)
    [] item = "variable_definition" -> parse_variable_definition(p, s)
    [] item = "variable_definitions" -> parse_variable_definitions(p, s)
    [] item = "selection_set" -> parse_selection_set(p, s)
    [] item = "field" -> parse_field(p, s)
    [] item = "fragment" -> parse_fragment(p, s)
    [] item = "selection" -> parse_selection(p, s)
    [] item = "fragment_name" -> parse_fragment_name(p, s)
    [] item = "fragment_definition" -> parse_fragment_definition(p, s)
    [] item = "operation_type" -> parse_operation_type(p, s)
    [] item = "operation_definition" -> parse_operation_definition(p, s)
    [] item = "operation_type_definition" -> parse_operation_type_definition(p, s)
    [] item = "schema_definition" -> parse_schema_definition(p, s)
    [] item = "scalar_type_definition" -> parse_scalar_type_definition(p, s)
    [] item = "implements_interfaces" -> parse_implements_interfaces(p, s)
    [] item = "input_value_definition" -> parse_input_value_definition(p, s)
    [] item = "argument_definitions" -> parse_argument_definitions(p, s)
    [] item = "field_definition" -> parse_field_definition(p, s)
    [] item = "object_type_definition" -> parse_object_type_definition(p, s)
    [] item = "interface_type_definition" -> parse_interface_type_definition(p, s)
    [] item = "union_members" -> parse_union_members(p, s)
    [] item = "union_type_definition" -> parse_union_type_definition(p, s)
    [] item = "enum_value_definition" -> parse_enum_value_definition(p, s)
    [] item = "enum_type_definition" -> parse_enum_type_definition(p, s)
    [] item = "input_object_type_definition" -> parse_input_object_type_definition(p, s)
    [] item = "type_extension_definition" -> parse_type_extension_definition(p, s)
    [] item = "directive_locations" -> parse_directive_locations(p, s)
    [] item = "directive_definition" -> parse_directive_definition(p, s)
    [] item = "type_system_definition" -> parse_type_system_definition(p, s)
    [] item = "definition" -> parse_definition(p, s)
    [] item = "document" -> parse_document(p, s)

\* The value a caller of parse gets: Ok(Document) or Err(Error), without the
\* cursor.
Outcome(r) ==
  IF r.ok THEN [ok |-> TRUE, document |-> r.val] ELSE [ok |-> FALSE, error |-> r.err]

\* parse(text) and parse_without_location(text), built with the features.
parse(text, type_system, subscriptions) ==
  Outcome(parse_item("document", Parser(Lex(text), TRUE, type_system, subscriptions),
                     StartCursor))

parse_without_location(text, type_system, subscriptions) ==
  Outcome(parse_item("document", Parser(Lex(text), FALSE, type_system, subscriptions),
                     StartCursor))

(***************************************************************************)
(* Printer (printer.rs).  A printer is the record [output,                 *)
(* indentation_size, indentation_level, wrapped]; every print operator     *)
(* maps a printer and a node to the printer after the node was written.    *)
(* The two levels are u8: wrapped records that an addition or subtraction  *)
(* left the range 0..255.                                                  *)
(***************************************************************************)
Printer(output, indentation_size, indentation_level) ==
  [output |-> output, indentation_size |-> indentation_size,
   indentation_level |-> indentation_level, wrapped |-> FALSE]

\* The printer is a `&mut self` that each statement has finished writing to
\* before the next one starts: what it holds is computed before it is handed
\* on (always TRUE; it fixes the order of evaluation).
Settled(pr) == Len(pr.output) >= 0

push(pr, string) == [pr EXCEPT !.output = @ \o string]

push_char(pr, character) == [pr EXCEPT !.output = Append(@, character)]

indent(pr) ==
  [pr EXCEPT !.indentation_level = (@ + pr.indentation_size) % 256,
             !.wrapped = @ \/ pr.indentation_level + pr.indentation_size > 255]

deindent(pr) ==
  [pr EXCEPT !.indentation_level = (@ + 256 - pr.indentation_size) % 256,
             !.wrapped = @ \/ pr.indentation_level < pr.indentation_size]

Spaces(n) == [i \in 1..n |-> " "]

line(pr) == push(push(pr, <<"\n">>), Spaces(pr.indentation_level))

\* The decimal digits of a natural number.
RECURSIVE NatToString(_)
NatToString(n) ==
  IF n < 10 THEN <<DigitChar(n)>> ELSE Append(NatToString(n \div 10), DigitChar(n % 10))

\* i32::to_string()
IntToString(n) ==
  IF n >= 0 THEN NatToString(n)
  ELSE IF n + 2147483647 < 0 THEN <<"-">> \o NatToString(214748364) \o <<"8">>
  ELSE <<"-">> \o NatToString(0 - n)

Zeros(n) == [i \in 1..n |-> "0"]

\* f32::to_string(): the shortest decimal that reads back as the value,
\* never in exponent form and with no fraction for a whole number.
FloatToString(f) ==
  LET after_digits(digits) ==
        LET k == 0 - f.exp
            sign == IF f.neg THEN <<"-">> ELSE <<>>
        IN IF f.exp >= 0 THEN sign \o digits \o Zeros(f.exp)
           ELSE IF Len(digits) > k
             THEN sign \o SubSeq(digits, 1, Len(digits) - k) \o <<".">>
                    \o SubSeq(digits, Len(digits) - k + 1, Len(digits))
           ELSE sign \o <<"0", ".">> \o Zeros(k - Len(digits)) \o digits
  IN after_digits(NatToString(f.mant))

RECURSIVE print_item(_, _, _)
RECURSIVE print_rest(_, _, _, _, _)
RECURSIVE print_lines(_, _, _, _)

\* The `for item in iter` loop of many(): the items from index i on, each
\* after the separator.
print_rest(pr, items, i, item, separator) ==
  IF i > Len(items) \/ ~Settled(pr) THEN pr
  ELSE print_rest(print_item(item, push(pr, separator), items[i]), items, i + 1,
                  item, separator)

\* many(items, print_fn, separator); item names print_fn.
print_many(pr, items, item, separator) ==
  IF Len(items) = 0 THEN pr
  ELSE print_rest(print_item(item, pr, items[1]), items, 2, item, separator)

\* The loop `for x in &node.xs { self.line(); self.print_x(x); }`.
print_lines(pr, items, i, item) ==
  IF i > Len(items) \/ ~Settled(pr) THEN pr
  ELSE print_lines(print_item(item, line(pr), items[i]), items, i + 1, item)

print_name(pr, name) == push(pr, name.value)

print_named_type(pr, node) == print_item("name", pr, node.name)

print_list_type(pr, node) ==
  push(print_item("type_reference", push(pr, <<"[">>), node.typ), <<"]">>)

print_non_null_type(pr, node) ==
  push(IF node.typ.tag = "Named" THEN print_item("named_type", pr, node.typ.node)
       ELSE print_item("list_type", pr, node.typ.node),
       <<"!">>)

print_type_reference(pr, node) ==
  CASE node.tag = "Named" -> print_item("named_type", pr, node.node)
    [] node.tag = "List" -> print_item("list_type", pr, node.node)
    [] node.tag = "NonNull" -> print_item("non_null_type", pr, node.node)

print_variable(pr, node) == print_item("name", push(pr, <<"$">>), node.name)

\* The loop of print_string_value() over the characters from index i on.
RECURSIVE print_string_chars(_, _, _)
\* The loop of print_string_value() without the arm of the newline: a faulty
\* variant.
RECURSIVE print_string_chars_raw_newline(_, _, _)
print_string_chars_raw_newline(pr, value, i) ==
  IF i > Len(value) THEN pr
  ELSE print_string_chars_raw_newline(
         CASE value[i] = "\"" -> push(pr, <<"\\", "\"">>)
           [] value[i] = "\\" -> push(pr, <<"\\", "\\">>)
           [] OTHER -> push_char(pr, value[i]),
         value, i + 1)

print_string_chars(pr, value, i) ==
  IF i > Len(value) THEN pr
  ELSE print_string_chars(
         CASE value[i] = "\"" -> push(pr, <<"\\", "\"">>)
           [] value[i] = "\\" -> push(pr, <<"\\", "\\">>)
           [] value[i] = "\n" -> push(pr, <<"\\", "n">>)
           [] OTHER -> push_char(pr, value[i]),
         value, i + 1)

print_string_value(pr, node) ==
  push(print_string_chars(push(pr, <<"\"">>), node.value, 1), <<"\"">>)

print_boolean_value(pr, node) ==
  IF node.value THEN push(pr, Kw_true) ELSE push(pr, Kw_false)

print_list_value(pr, node) ==
  push(print_many(push(pr, <<"[">>), node.values, "value_literal", <<",", " ">>), <<"]">>)

print_object_value(pr, node) ==
  push(print_many(push(pr, <<"{">>), node.fields, "object_field", <<",", " ">>), <<"}">>)

print_value_literal(pr, node) ==
  CASE node.tag = "Variable" -> print_item("variable", pr, node.node)
    [] node.tag = "Int" -> push(pr, IntToString(node.node.value))
    [] node.tag = "Float" -> push(pr, FloatToString(node.node.value))
    [] node.tag = "String" -> print_item("string_value", pr, node.node)
    [] node.tag = "Boolean" -> print_item("boolean_value", pr, node.node)
    [] node.tag = "Null" -> push(pr, Kw_null)
    [] node.tag = "Enum" -> push(pr, node.node.value)
    [] node.tag = "List" -> print_item("list_value", pr, node.node)
    [] node.tag = "Object" -> print_item("object_value", pr, node.node)

print_object_field(pr, node) ==
  print_item("value_literal", push(print_item("name", pr, node.name), <<":", " ">>), node.value)

print_argument(pr, node) ==
  print_item("value_literal", push(print_item("name", pr, node.name), <<":", " ">>), node.value)

\* `( Argument, ... )` when there is an argument, as print_field and
\* print_directive write it.
print_arguments(pr, arguments) ==
  IF Len(arguments) # 0
  THEN push(print_many(push(pr, <<"(">>), arguments, "argument", <<",", " ">>), <<")">>)
  ELSE pr

print_directive(pr, node) ==
  print_item("arguments", print_item("name", push(pr, <<"@">>), node.name), node.arguments)

print_directives(pr, directives) ==
  IF Len(directives) # 0
  THEN print_many(push(pr, <<" ">>), directives, "directive", <<" ">>)
  ELSE pr

\* A faulty variant of print_selection_set: the selections follow the `{` on
\* the same line, separated by spaces.
print_selection_set_on_one_line(pr, node) ==
  push(print_many(push(pr, <<"{">>), node.selections, "selection", <<" ">>), <<"}">>)

\* A faulty variant of print_selection_set: indent() without its deindent().
print_selection_set_left_indented(pr, node) ==
  push(line(print_lines(indent(push(pr, <<"{">>)), node.selections, 1, "selection")),
       <<"}">>)

print_selection_set(pr, node) ==
  push(line(deindent(print_lines(indent(push(pr, <<"{">>)), node.selections, 1,
                                 "selection"))),
       <<"}">>)

print_field(pr, node) ==
  LET p1 == IF node.alias # <<>>
            THEN push(print_item("name", pr, node.alias[1]), <<":", " ">>) ELSE pr
      p2 == print_item("name", p1, node.name)
      p3 == print_item("arguments", p2, node.arguments)
      after_p4(p4) ==
        IF node.selection_set # <<>>
        THEN print_item("selection_set", push(p4, <<" ">>), node.selection_set[1])
        ELSE p4
  IN after_p4(print_item("directives", p3, node.directives))

print_fragment_spread(pr, node) ==
  print_item("directives", print_item("name", push(pr, <<".", ".", ".">>), node.name), node.directives)

print_inline_fragment(pr, node) ==
  LET after_p1(p1) ==
        LET p2 == IF node.type_condition # <<>>
                  THEN print_item("named_type", push(p1, <<" ">> \o Kw_on \o <<" ">>), node.type_condition[1])
                  ELSE p1
            p3 == print_item("directives", p2, node.directives)
        IN print_item("selection_set", push(p3, <<" ">>), node.selection_set)
  IN after_p1(push(pr, <<".", ".", ".">>))

print_selection(pr, node) ==
  CASE node.tag = "Field" -> print_item("field", pr, node.node)
    [] node.tag = "FragmentSpread" -> print_item("fragment_spread", pr, node.node)
    [] node.tag = "InlineFragment" -> print_item("inline_fragment", pr, node.node)

print_fragment_definition(pr, node) ==
  LET p1 == print_item("name", push(pr, Kw_fragment \o <<" ">>), node.name)
      p2 == print_item("named_type", push(p1, <<" ">> \o Kw_on \o <<" ">>), node.type_condition)
      p3 == print_item("directives", p2, node.directives)
  IN print_item("selection_set", push(p3, <<" ">>), node.selection_set)

print_variable_definition(pr, node) ==
  LET p1 == push(print_item("variable", pr, node.variable), <<":", " ">>)
      after_p2(p2) ==
        IF node.default_value # <<>>
        THEN print_item("value_literal", push(p2, <<" ", "=", " ">>), node.default_value[1])
        ELSE p2
  IN after_p2(print_item("type_reference", p1, node.typ))

print_operation_type(pr, operation) ==
  push(pr, CASE operation = "Query" -> Kw_query
             [] operation = "Mutation" -> Kw_mutation
             [] operation = "Subscription" -> Kw_subscription)
\* print_operation_definition with the directives left out of the test for
\* the short form: a faulty variant, to show what the short-form property
\* rules out.
print_operation_definition_short_with_directives(pr, node) ==
  IF /\ node.operation = "Query"
     /\ node.name = <<>>
     /\ Len(node.variable_definitions) = 0
  THEN print_item("selection_set", pr, node.selection_set)
  ELSE print_item("selection_set",
                  push(print_item("operation_type", pr, node.operation), <<" ">>),
                  node.selection_set)

print_operation_definition(pr, node) ==
  IF /\ node.operation = "Query"
     /\ node.name = <<>>
     /\ Len(node.variable_definitions) = 0
     /\ Len(node.directives) = 0
  THEN print_item("selection_set", pr, node.selection_set)
  ELSE LET after_p1(p1) ==
             LET after_p2(p2) ==
                   LET p3 == IF Len(node.variable_definitions) # 0
                             THEN push(print_many(push(p2, <<"(">>), node.variable_definitions,
                                                  "variable_definition", <<",", " ">>),
                                       <<")", " ">>)
                             ELSE p2
                       after_p4(p4) ==
                         LET p5 == IF Len(node.directives) # 0 THEN push(p4, <<" ">>) ELSE p4
                         IN print_item("selection_set", p5, node.selection_set)
                   IN after_p4(print_many(p3, node.directives, "directive", <<" ">>))
             IN after_p2(IF node.name # <<>>
                         THEN LET after_q(q) ==
                                    IF Len(node.variable_definitions) = 0 THEN push(q, <<" ">>) ELSE q
                              IN after_q(print_item("name", p1, node.name[1]))
                         ELSE p1)
       IN after_p1(push(print_item("operation_type", pr, node.operation), <<" ">>))

(***************************************************************************)
(* Printer, type system definitions (feature "type_system")                *)
(***************************************************************************)
\* `{`, indent, one line per item, deindent, line, `}`: the block the schema,
\* interface, enum and input definitions write after their opening text.
print_block(pr, items, item) ==
  push(line(deindent(print_lines(indent(pr), items, 1, item))), <<"}">>)

print_operation_type_definition(pr, node) ==
  print_item("named_type", push(print_item("operation_type", pr, node.operation), <<":", " ">>), node.typ)

print_schema_definition(pr, node) ==
  LET p1 == push(pr, Kw_schema \o <<" ">>)
      p2 == print_item("directives", p1, node.directives)
  IN print_block(push(p2, <<"{">>), node.operation_types, "operation_type_definition")

print_scalar_type_definition(pr, node) ==
  print_item("directives", print_item("name", push(pr, Kw_scalar \o <<" ">>), node.name), node.directives)

print_input_value_definition(pr, node) ==
  LET p1 == push(print_item("name", pr, node.name), <<":", " ">>)
      after_p2(p2) ==
        LET p3 == IF node.default_value # <<>>
                  THEN print_item("value_literal", push(p2, <<" ", "=", " ">>), node.default_value[1])
                  ELSE p2
        IN print_item("directives", p3, node.directives)
  IN after_p2(print_item("type_reference", p1, node.typ))

\* `( InputValueDefinition, ... )` when there is one, as
\* print_field_definition and print_directive_definition write it.
print_argument_definitions(pr, arguments) ==
  IF Len(arguments) # 0
  THEN push(print_many(push(pr, <<"(">>), arguments, "input_value_definition",
                       <<",", " ">>), <<")">>)
  ELSE pr

print_field_definition(pr, node) ==
  LET p1 == print_item("argument_definitions", print_item("name", pr, node.name), node.arguments)
      p2 == print_item("type_reference", push(p1, <<":", " ">>), node.typ)
  IN print_item("directives", p2, node.directives)

print_object_type_definition(pr, node) ==
  LET after_p1(p1) ==
        LET p2 == IF Len(node.interfaces) # 0
                  THEN print_many(push(p1, <<" ">> \o Kw_implements \o <<" ">>), node.interfaces,
                                  "named_type", <<",", " ">>)
                  ELSE p1
            after_p3(p3) ==
              IF Len(node.fields) # 0
              THEN print_block(p3, node.fields, "field_definition")
              ELSE push(p3, <<"}">>)
        IN after_p3(push(print_item("directives", p2, node.directives), <<" ", "{">>))
  IN after_p1(print_item("name", push(pr, Kw_type \o <<" ">>), node.name))

print_interface_type_definition(pr, node) ==
  LET p1 == print_item("name", push(pr, Kw_interface \o <<" ">>), node.name)
      p2 == push(print_item("directives", p1, node.directives), <<" ", "{">>)
  IN print_block(p2, node.fields, "field_definition")

print_union_type_definition(pr, node) ==
  LET p1 == print_item("name", push(pr, Kw_union \o <<" ">>), node.name)
      p2 == push(print_item("directives", p1, node.directives), <<" ", "=", " ">>)
  IN print_many(p2, node.types, "named_type", <<" ", "|", " ">>)

print_enum_value_definition(pr, node) ==
  print_item("directives", print_item("name", pr, node.name), node.directives)

print_enum_type_definition(pr, node) ==
  LET p1 == print_item("name", push(pr, Kw_enum \o <<" ">>), node.name)
      p2 == push(print_item("directives", p1, node.directives), <<" ", "{">>)
  IN print_block(p2, node.values, "enum_value_definition")

print_input_object_type_definition(pr, node) ==
  LET p1 == print_item("name", push(pr, Kw_input \o <<" ">>), node.name)
      p2 == push(print_item("directives", p1, node.directives), <<" ", "{">>)
  IN print_block(p2, node.fields, "input_value_definition")

print_type_extension_definition(pr, node) ==
  print_item("object_type_definition", push(pr, Kw_extend \o <<" ">>), node.definition)

print_directive_definition(pr, node) ==
  LET p1 == print_item("name", push(pr, Kw_directive \o <<" ", "@">>), node.name)
      p2 == print_item("argument_definitions", p1, node.arguments)
  IN print_many(push(p2, <<" ">> \o Kw_on \o <<" ">>), node.locations, "name",
                <<" ", "|", " ">>)

print_type_system_definition(pr, node) ==
  CASE node.tag = "Schema" -> print_item("schema_definition", pr, node.node)
    [] node.tag = "Type" /\ node.node.tag = "Scalar" ->
         print_item("scalar_type_definition", pr, node.node.node)
    [] node.tag = "Type" /\ node.node.tag = "Object" ->
         print_item("object_type_definition", pr, node.node.node)
    [] node.tag = "Type" /\ node.node.tag = "Interface" ->
         print_item("interface_type_definition", pr, node.node.node)
    [] node.tag = "Type" /\ node.node.tag = "Union" ->
         print_item("union_type_definition", pr, node.node.node)
    [] node.tag = "Type" /\ node.node.tag = "Enum" ->
         print_item("enum_type_definition", pr, node.node.node)
    [] node.tag = "Type" /\ node.node.tag = "InputObject" ->
         print_item("input_object_type_definition", pr, node.node.node)
    [] node.tag = "TypeExtension" -> print_item("type_extension_definition", pr, node.node)
    [] node.tag = "Directive" -> print_item("directive_definition", pr, node.node)

(***************************************************************************)
(* Printer, document                                                       *)
(***************************************************************************)
print_definition(pr, node) ==
  CASE node.tag = "Operation" -> print_item("operation_definition", pr, node.node)
    [] node.tag = "Fragment" -> print_item("fragment_definition", pr, node.node)
    [] node.tag = "TypeSystem" -> print_item("type_system_definition", pr, node.node)

print_document(pr, node) ==
  push(print_many(pr, node.definitions, "definition", <<"\n", "\n">>), <<"\n">>)

\* The print functions, by name: the print_fn argument of many() and of the
\* line loops, and the calls of one print function by another.
print_item(item, pr, node) ==
  CASE ~Settled(pr) -> pr
    [] item = "name" -> print_name(pr, node)
    [] item = "named_type" -> print_named_type(pr, node)
    [] item = "list_type" -> print_list_type(pr, node)
    [] item = "non_null_type" -> print_non_null_type(pr, node)
    [] item = "type_reference" -> print_type_reference(pr, node)
    [] item = "variable" -> print_variable(pr, node)
    [] item = "string_value" -> print_string_value(pr, node)
    [] item = "boolean_value" -> print_boolean_value(pr, node)
    [] item = "list_value" -> print_list_value(pr, node)
    [] item = "object_value" -> print_object_value(pr, node)
    [] item = "value_literal" -> print_value_literal(pr, node)
    [] item = "object_field" -> print_object_field(pr, node)
    [] item = "argument" -> print_argument(pr, node)
    [] item = "arguments" -> print_arguments(pr, node)
    [] item = "directive" -> print_directive(pr, node)
    [] item = "directives" -> print_directives(pr, node)
    [] item = "selection_set" -> print_selection_set(pr, node)
    [] item = "field" -> print_field(pr, node)
    [] item = "fragment_spread" -> print_fragment_spread(pr, node)
    [] item = "inline_fragment" -> print_inline_fragment(pr, node)
    [] item = "selection" -> print_selection(pr, node)
    [] item = "fragment_definition" -> print_fragment_definition(pr, node)
    [] item = "variable_definition" -> print_variable_definition(pr, node)
    [] item = "operation_type" -> print_operation_type(pr, node)
    [] item = "operation_definition" -> print_operation_definition(pr, node)
    [] item = "operation_type_definition" -> print_operation_type_definition(pr, node)
    [] item = "schema_definition" -> print_schema_definition(pr, node)
    [] item = "scalar_type_definition" -> print_scalar_type_definition(pr, node)
    [] item = "input_value_definition" -> print_input_value_definition(pr, node)
    [] item = "argument_definitions" -> print_argument_definitions(pr, node)
    [] item = "field_definition" -> print_field_definition(pr, node)
    [] item = "object_type_definition" -> print_object_type_definition(pr, node)
    [] item = "interface_type_definition" -> print_interface_type_definition(pr, node)
    [] item = "union_type_definition" -> print_union_type_definition(pr, node)
    [] item = "enum_value_definition" -> print_enum_value_definition(pr, node)
    [] item = "enum_type_definition" -> print_enum_type_definition(pr, node)
    [] item = "input_object_type_definition" -> print_input_object_type_definition(pr, node)
    [] item = "type_extension_definition" -> print_type_extension_definition(pr, node)
    [] item = "directive_definition" -> print_directive_definition(pr, node)
    [] item = "type_system_definition" -> print_type_system_definition(pr, node)
    [] item = "definition" -> print_definition(pr, node)
    [] item = "document" -> print_document(pr, node)

\* print(document): the printer that print() builds, after print_document.
PrinterAfter(document) == print_item("document", Printer(<<>>, 2, 0), document)

print(document) == PrinterAfter(document).output

(***************************************************************************)
(* Visitor (visitor.rs).  The hooks of a visitor are code of the caller:   *)
(* a visitor is the record [id, behaviour], and Hook says what each        *)
(* behaviour's hooks return.  The record w = [parallel, visitors, log] is  *)
(* the `&mut V` that visit() is given: one visitor, or a ParallelVisitor   *)
(* over a list, with the log of the hook calls made so far.  Every visit   *)
(* operator maps (w, node) to [node, w].  The fields the visitor names     *)
(* type_ are the fields typ of the parser's nodes.                         *)
(***************************************************************************)
Behaviours == {"noop", "mark", "swap", "prune", "grow", "wrap"}

\* What the hook of a visitor returns for a node.  The trait's default
\* (fn_visits!) returns the node; the other behaviours override some hooks:
\*   mark   enter_name and leave_name append the visitor's id to the name
\*   swap   enter_selection turns a Field into a FragmentSpread
\*   prune  enter_field drops the arguments and the selection set
\*   grow   leave_selection_set appends a field
\*   wrap   enter_value turns an Int value into a List of one Null
Hook(visitor, hook, type, node) ==
  LET mark == <<DigitChar(visitor.id)>>
  IN CASE visitor.behaviour = "mark" /\ type = "Name" /\ hook = "enter" ->
            [node EXCEPT !.value = @ \o <<"e">> \o mark]
       [] visitor.behaviour = "mark" /\ type = "Name" /\ hook = "leave" ->
            [node EXCEPT !.value = @ \o <<"l">> \o mark]
       [] /\ visitor.behaviour = "swap" /\ type = "Selection" /\ hook = "enter"
          /\ node.tag = "Field" ->
            [tag |-> "FragmentSpread",
             node |-> [loc |-> node.node.loc, name |-> node.node.name,
                       directives |-> node.node.directives]]
       [] visitor.behaviour = "prune" /\ type = "Field" /\ hook = "enter" ->
            [node EXCEPT !.arguments = <<>>, !.selection_set = <<>>]
       [] visitor.behaviour = "grow" /\ type = "SelectionSet" /\ hook = "leave" ->
            [node EXCEPT !.selections =
               Append(@, [tag |-> "Field",
                          node |-> [loc |-> <<>>, alias |-> <<>>,
                                    name |-> [loc |-> <<>>, value |-> <<"g">> \o mark],
                                    arguments |-> <<>>, directives |-> <<>>,
                                    selection_set |-> <<>>]])]
       [] /\ visitor.behaviour = "wrap" /\ type = "Value" /\ hook = "enter"
          /\ node.tag = "Int" ->
            [tag |-> "List",
             node |-> [loc |-> node.node.loc,
                       values |-> <<[tag |-> "Null", node |-> [loc |-> node.node.loc]]>>]]
       [] OTHER -> node

\* A call of one visitor's hook, logged.
Call(w, i, hook, type, node) ==
  LET after_ret(ret) ==
        [node |-> ret,
         w |-> [w EXCEPT !.log = Append(@, [visitor |-> i, hook |-> hook, type |-> type,
                                            arg |-> node, ret |-> ret])]]
  IN after_ret(Hook(w.visitors[i], hook, type, node))

\* fn_visits_parallel!, $enter_fn: the loop from visitor i on.
RECURSIVE parallel_enter(_, _, _, _)
parallel_enter(w, type, node, i) ==
  IF i > Len(w.visitors) THEN [node |-> node, w |-> w]
  ELSE LET after_r(r) ==
             parallel_enter(r.w, type, r.node, i + 1)
       IN after_r(Call(w, i, "enter", type, node))

\* $leave_fn looping over the visitors in the order of $enter_fn: a faulty
\* variant.
RECURSIVE parallel_leave_forward(_, _, _, _)
parallel_leave_forward(w, type, node, i) ==
  IF i < 1 THEN [node |-> node, w |-> w]
  ELSE LET after_r(r) ==
             parallel_leave_forward(r.w, type, r.node, i - 1)
       IN after_r(Call(w, Len(w.visitors) - i + 1, "leave", type, node))

\* fn_visits_parallel!, $leave_fn: the reversed loop from visitor i down.
RECURSIVE parallel_leave(_, _, _, _)
parallel_leave(w, type, node, i) ==
  IF i < 1 THEN [node |-> node, w |-> w]
  ELSE LET after_r(r) ==
             parallel_leave(r.w, type, r.node, i - 1)
       IN after_r(Call(w, i, "leave", type, node))

\* v.enter_X(node) and v.leave_X(node) for the visitor visit() was given.
enter(w, type, node) ==
  IF w.parallel THEN parallel_enter(w, type, node, 1) ELSE Call(w, 1, "enter", type, node)

leave(w, type, node) ==
  IF w.parallel THEN parallel_leave(w, type, node, Len(w.visitors))
  ELSE Call(w, 1, "leave", type, node)

RECURSIVE visit_item(_, _, _)
RECURSIVE visit_many_from(_, _, _, _, _)
\* visit_many! mapping over the nodes from the last one to the first: a
\* faulty variant.
RECURSIVE visit_many_from_reversed(_, _, _, _, _)
visit_many_from_reversed(w, item, nodes, i, done) ==
  IF i > Len(nodes) THEN [node |-> done, w |-> w]
  ELSE LET after_r(r) ==
             visit_many_from_reversed(r.w, item, nodes, i + 1, <<r.node>> \o done)
       IN after_r(visit_item(item, w, nodes[Len(nodes) + 1 - i]))

\* visit_many!: the map over the nodes from index i on; done holds the
\* results so far.
visit_many_from(w, item, nodes, i, done) ==
  IF i > Len(nodes) THEN [node |-> done, w |-> w]
  ELSE LET after_r(r) ==
             visit_many_from(r.w, item, nodes, i + 1, Append(done, r.node))
       IN after_r(visit_item(item, w, nodes[i]))

visit_many(w, item, nodes) == visit_many_from(w, item, nodes, 1, <<>>)

\* Option::map(|x| visit(v, x))
visit_option(w, item, option) ==
  IF option = <<>> THEN [node |-> <<>>, w |-> w]
  ELSE LET after_r(r) ==
             [node |-> <<r.node>>, w |-> r.w]
       IN after_r(visit_item(item, w, option[1]))

\* The nodes without children: visit_int_value, visit_float_value,
\* visit_string_value, visit_boolean_value, visit_null_value,
\* visit_enum_value and visit_name.
visit_leaf(w, type, _node) ==
  LET after_e(e) ==
        leave(e.w, type, e.node)
  IN after_e(enter(w, type, _node))

visit_name(w, name) == visit_leaf(w, "Name", name)

visit_named_type(w, _node) ==
  LET after_e(e) ==
        LET after_n(n) ==
              leave(n.w, "NamedType", [e.node EXCEPT !.name = n.node])
        IN after_n(visit_item("name", e.w, e.node.name))
  IN after_e(enter(w, "NamedType", _node))

visit_list_type(w, _node) ==
  LET after_e(e) ==
        LET after_t(t) ==
              leave(t.w, "ListType", [e.node EXCEPT !.typ = t.node])
        IN after_t(visit_item("type", e.w, e.node.typ))
  IN after_e(enter(w, "ListType", _node))

visit_nullable_type(w, _node) ==
  LET after_e(e) ==
        LET after_c(c) ==
              leave(c.w, "NullableType", [tag |-> e.node.tag, node |-> c.node])
        IN after_c(IF e.node.tag = "Named" THEN visit_item("named_type", e.w, e.node.node)
                   ELSE visit_item("list_type", e.w, e.node.node))
  IN after_e(enter(w, "NullableType", _node))

visit_non_null_type(w, _node) ==
  LET after_e(e) ==
        LET after_t(t) ==
              leave(t.w, "NonNullType", [e.node EXCEPT !.typ = t.node])
        IN after_t(visit_item("nullable_type", e.w, e.node.typ))
  IN after_e(enter(w, "NonNullType", _node))

visit_type(w, _node) ==
  LET after_e(e) ==
        LET after_c(c) ==
              leave(c.w, "Type", [tag |-> e.node.tag, node |-> c.node])
        IN after_c(CASE e.node.tag = "Named" -> visit_item("named_type", e.w, e.node.node)
                     [] e.node.tag = "List" -> visit_item("list_type", e.w, e.node.node)
                     [] e.node.tag = "NonNull" -> visit_item("non_null_type", e.w, e.node.node))
  IN after_e(enter(w, "Type", _node))

visit_variable(w, _node) ==
  LET after_e(e) ==
        LET after_n(n) ==
              leave(n.w, "Variable", [e.node EXCEPT !.name = n.node])
        IN after_n(visit_item("name", e.w, e.node.name))
  IN after_e(enter(w, "Variable", _node))

visit_list_value(w, _node) ==
  LET after_e(e) ==
        LET after_c(c) ==
              leave(c.w, "ListValue", [e.node EXCEPT !.values = c.node])
        IN after_c(visit_many(e.w, "value", e.node.values))
  IN after_e(enter(w, "ListValue", _node))

visit_object_value(w, _node) ==
  LET after_e(e) ==
        LET after_c(c) ==
              leave(c.w, "ObjectValue", [e.node EXCEPT !.fields = c.node])
        IN after_c(visit_many(e.w, "object_field", e.node.fields))
  IN after_e(enter(w, "ObjectValue", _node))

visit_value(w, _node) ==
  LET after_e(e) ==
        LET after_c(c) ==
              leave(c.w, "Value", [tag |-> e.node.tag, node |-> c.node])
        IN after_c(CASE e.node.tag = "Variable" -> visit_item("variable", e.w, e.node.node)
                     [] e.node.tag = "Int" -> visit_leaf(e.w, "IntValue", e.node.node)
                     [] e.node.tag = "Float" -> visit_leaf(e.w, "FloatValue", e.node.node)
                     [] e.node.tag = "String" -> visit_leaf(e.w, "StringValue", e.node.node)
                     [] e.node.tag = "Boolean" -> visit_leaf(e.w, "BooleanValue", e.node.node)
                     [] e.node.tag = "Null" -> visit_leaf(e.w, "NullValue", e.node.node)
                     [] e.node.tag = "Enum" -> visit_leaf(e.w, "EnumValue", e.node.node)
                     [] e.node.tag = "List" -> visit_item("list_value", e.w, e.node.node)
                     [] e.node.tag = "Object" -> visit_item("object_value", e.w, e.node.node))
  IN after_e(enter(w, "Value", _node))

visit_object_field(w, _node) ==
  LET after_e(e) ==
        LET after_n(n) ==
              LET after_v(v) ==
                    leave(v.w, "ObjectField", [e.node EXCEPT !.name = n.node, !.value = v.node])
              IN after_v(visit_item("value", n.w, e.node.value))
        IN after_n(visit_item("name", e.w, e.node.name))
  IN after_e(enter(w, "ObjectField", _node))

\* A faulty variant of visit_argument: the node handed to leave_argument keeps
\* the name of the argument as its value, an enum value.
visit_argument_losing_value(w, _node) ==
  LET after_e(e) ==
        LET after_n(n) ==
              LET after_v(v) ==
                    leave(v.w, "Argument",
                          [e.node EXCEPT !.name = n.node,
                                         !.value = [tag |-> "Enum",
                                                    node |-> [loc |-> <<>>,
                                                              value |-> n.node.value]]])
              IN after_v(visit_item("value", n.w, e.node.value))
        IN after_n(visit_item("name", e.w, e.node.name))
  IN after_e(enter(w, "Argument", _node))

visit_argument(w, _node) ==
  LET after_e(e) ==
        LET after_n(n) ==
              LET after_v(v) ==
                    leave(v.w, "Argument", [e.node EXCEPT !.name = n.node, !.value = v.node])
              IN after_v(visit_item("value", n.w, e.node.value))
        IN after_n(visit_item("name", e.w, e.node.name))
  IN after_e(enter(w, "Argument", _node))

visit_directive(w, _node) ==
  LET after_e(e) ==
        LET after_n(n) ==
              LET after_a(a) ==
                    leave(a.w, "Directive", [e.node EXCEPT !.name = n.node, !.arguments = a.node])
              IN after_a(visit_many(n.w, "argument", e.node.arguments))
        IN after_n(visit_item("name", e.w, e.node.name))
  IN after_e(enter(w, "Directive", _node))

visit_variable_definition(w, _node) ==
  LET after_e(e) ==
        LET after_v(v) ==
              LET after_t(t) ==
                    LET after_d(d) ==
                          leave(d.w, "VariableDefinition",
                                [e.node EXCEPT !.variable = v.node, !.typ = t.node, !.default_value = d.node])
                    IN after_d(visit_option(t.w, "value", e.node.default_value))
              IN after_t(visit_item("type", v.w, e.node.typ))
        IN after_v(visit_item("variable", e.w, e.node.variable))
  IN after_e(enter(w, "VariableDefinition", _node))
\* visit_field handing leave_field the node without the results of its
\* children's visits: a faulty variant.
visit_field_dropping_results(w, _node) ==
  LET after_e(e) ==
        LET after_al(al) ==
              LET after_n(n) ==
                    LET after_a(a) ==
                          LET after_d(d) ==
                                LET after_ss(ss) ==
                                      leave(ss.w, "Field", e.node)
                                IN after_ss(visit_option(d.w, "selection_set", e.node.selection_set))
                          IN after_d(visit_many(a.w, "directive", e.node.directives))
                    IN after_a(visit_many(n.w, "argument", e.node.arguments))
              IN after_n(visit_item("name", al.w, e.node.name))
        IN after_al(visit_option(e.w, "name", e.node.alias))
  IN after_e(enter(w, "Field", _node))

visit_field(w, _node) ==
  LET after_e(e) ==
        LET after_al(al) ==
              LET after_n(n) ==
                    LET after_a(a) ==
                          LET after_d(d) ==
                                LET after_ss(ss) ==
                                      leave(ss.w, "Field",
                                            [e.node EXCEPT !.alias = al.node, !.name = n.node, !.arguments = a.node,
                                                           !.directives = d.node, !.selection_set = ss.node])
                                IN after_ss(visit_option(d.w, "selection_set", e.node.selection_set))
                          IN after_d(visit_many(a.w, "directive", e.node.directives))
                    IN after_a(visit_many(n.w, "argument", e.node.arguments))
              IN after_n(visit_item("name", al.w, e.node.name))
        IN after_al(visit_option(e.w, "name", e.node.alias))
  IN after_e(enter(w, "Field", _node))

visit_fragment_spread(w, _node) ==
  LET after_e(e) ==
        LET after_n(n) ==
              LET after_d(d) ==
                    leave(d.w, "FragmentSpread", [e.node EXCEPT !.name = n.node, !.directives = d.node])
              IN after_d(visit_many(n.w, "directive", e.node.directives))
        IN after_n(visit_item("name", e.w, e.node.name))
  IN after_e(enter(w, "FragmentSpread", _node))

visit_inline_fragment(w, _node) ==
  LET after_e(e) ==
        LET after_t(t) ==
              LET after_d(d) ==
                    LET after_ss(ss) ==
                          leave(ss.w, "InlineFragment",
                                [e.node EXCEPT !.type_condition = t.node, !.directives = d.node,
                                               !.selection_set = ss.node])
                    IN after_ss(visit_item("selection_set", d.w, e.node.selection_set))
              IN after_d(visit_many(t.w, "directive", e.node.directives))
        IN after_t(visit_option(e.w, "named_type", e.node.type_condition))
  IN after_e(enter(w, "InlineFragment", _node))

visit_selection(w, _node) ==
  LET after_e(e) ==
        LET after_c(c) ==
              leave(c.w, "Selection", [tag |-> e.node.tag, node |-> c.node])
        IN after_c(CASE e.node.tag = "Field" -> visit_item("field", e.w, e.node.node)
                     [] e.node.tag = "FragmentSpread" -> visit_item("fragment_spread", e.w, e.node.node)
                     [] e.node.tag = "InlineFragment" -> visit_item("inline_fragment", e.w, e.node.node))
  IN after_e(enter(w, "Selection", _node))

visit_selection_set(w, _node) ==
  LET after_e(e) ==
        LET after_c(c) ==
              leave(c.w, "SelectionSet", [e.node EXCEPT !.selections = c.node])
        IN after_c(visit_many(e.w, "selection", e.node.selections))
  IN after_e(enter(w, "SelectionSet", _node))

visit_fragment_definition(w, _node) ==
  LET after_e(e) ==
        LET after_n(n) ==
              LET after_t(t) ==
                    LET after_d(d) ==
                          LET after_ss(ss) ==
                                leave(ss.w, "FragmentDefinition",
                                      [e.node EXCEPT !.name = n.node, !.type_condition = t.node,
                                                     !.directives = d.node, !.selection_set = ss.node])
                          IN after_ss(visit_item("selection_set", d.w, e.node.selection_set))
                    IN after_d(visit_many(t.w, "directive", e.node.directives))
              IN after_t(visit_item("named_type", n.w, e.node.type_condition))
        IN after_n(visit_item("name", e.w, e.node.name))
  IN after_e(enter(w, "FragmentDefinition", _node))

visit_operation_definition(w, _node) ==
  LET after_e(e) ==
        LET after_n(n) ==
              LET after_v(v) ==
                    LET after_d(d) ==
                          LET after_ss(ss) ==
                                leave(ss.w, "OperationDefinition",
                                      [e.node EXCEPT !.name = n.node, !.variable_definitions = v.node,
                                                     !.directives = d.node, !.selection_set = ss.node])
                          IN after_ss(visit_item("selection_set", d.w, e.node.selection_set))
                    IN after_d(visit_many(v.w, "directive", e.node.directives))
              IN after_v(visit_many(n.w, "variable_definition", e.node.variable_definitions))
        IN after_n(visit_option(e.w, "name", e.node.name))
  IN after_e(enter(w, "OperationDefinition", _node))

visit_definition(w, _node) ==
  LET after_e(e) ==
        LET after_c(c) ==
              leave(c.w, "Definition", [tag |-> e.node.tag, node |-> c.node])
        IN after_c(CASE e.node.tag = "Operation" -> visit_item("operation_definition", e.w, e.node.node)
                     [] e.node.tag = "Fragment" -> visit_item("fragment_definition", e.w, e.node.node))
  IN after_e(enter(w, "Definition", _node))

visit_document(w, _node) ==
  LET after_e(e) ==
        LET after_c(c) ==
              leave(c.w, "Document", [e.node EXCEPT !.definitions = c.node])
        IN after_c(visit_many(e.w, "definition", e.node.definitions))
  IN after_e(enter(w, "Document", _node))

\* The visit functions, by name: the $fn_ argument of visit_many!, and the
\* calls of one visit function by another.
visit_item(item, w, node) ==
  CASE item = "name" -> visit_name(w, node)
    [] item = "named_type" -> visit_named_type(w, node)
    [] item = "list_type" -> visit_list_type(w, node)
    [] item = "nullable_type" -> visit_nullable_type(w, node)
    [] item = "non_null_type" -> visit_non_null_type(w, node)
    [] item = "type" -> visit_type(w, node)
    [] item = "variable" -> visit_variable(w, node)
    [] item = "list_value" -> visit_list_value(w, node)
    [] item = "object_value" -> visit_object_value(w, node)
    [] item = "value" -> visit_value(w, node)
    [] item = "object_field" -> visit_object_field(w, node)
    [] item = "argument" -> visit_argument(w, node)
    [] item = "directive" -> visit_directive(w, node)
    [] item = "variable_definition" -> visit_variable_definition(w, node)
    [] item = "field" -> visit_field(w, node)
    [] item = "fragment_spread" -> visit_fragment_spread(w, node)
    [] item = "inline_fragment" -> visit_inline_fragment(w, node)
    [] item = "selection" -> visit_selection(w, node)
    [] item = "selection_set" -> visit_selection_set(w, node)
    [] item = "fragment_definition" -> visit_fragment_definition(w, node)
    [] item = "operation_definition" -> visit_operation_definition(w, node)
    [] item = "definition" -> visit_definition(w, node)
    [] item = "document" -> visit_document(w, node)

\* visit(visitor, document)
visit(w, document) == visit_item("document", w, document)

(***************************************************************************)
(* The state machine.  A caller builds a source text word by word, parses  *)
(* it, prints the document, parses the printed text and prints again (the  *)
(* round trip of tests/kitchen-sink.rs), or visits the parsed document.    *)
(* A profile fixes the cargo features, the parse function and the words    *)
(* the text is built from.                                                 *)
(***************************************************************************)
VARIABLES config, source, typed, phase, parsed, printed, reparsed, reprinted,
          visitor, visited

vars == <<config, source, typed, phase, parsed, printed, reparsed, reprinted,
          visitor, visited>>

\* The longest text, in words after the seed of the profile.
MaxWords == 4

\* The longest list of visitors a ParallelVisitor is built from.
MaxVisitors == 2

\* The profiles of the parse and print machine.
Profiles ==
  {[profile |-> "operations", include_location |-> FALSE, type_system |-> FALSE,
    subscriptions |-> TRUE],
   [profile |-> "located", include_location |-> TRUE, type_system |-> FALSE,
    subscriptions |-> FALSE],
   [profile |-> "blank", include_location |-> FALSE, type_system |-> FALSE,
    subscriptions |-> FALSE],
   [profile |-> "nested", include_location |-> FALSE, type_system |-> FALSE,
    subscriptions |-> FALSE],
   [profile |-> "values", include_location |-> FALSE, type_system |-> FALSE,
    subscriptions |-> FALSE],
   [profile |-> "types", include_location |-> FALSE, type_system |-> FALSE,
    subscriptions |-> FALSE],
   [profile |-> "selections", include_location |-> FALSE, type_system |-> FALSE,
    subscriptions |-> FALSE],
   [profile |-> "schema", include_location |-> FALSE, type_system |-> TRUE,
    subscriptions |-> FALSE],
   [profile |-> "unions", include_location |-> FALSE, type_system |-> TRUE,
    subscriptions |-> FALSE],
   [profile |-> "fields", include_location |-> FALSE, type_system |-> TRUE,
    subscriptions |-> FALSE],
   [profile |-> "inputs", include_location |-> FALSE, type_system |-> TRUE,
    subscriptions |-> FALSE]}

\* The text a profile starts from.
Seed(profile) ==
  CASE profile = "values" -> <<"{", "a", "(", "b", ":">>
    [] profile = "types" -> <<"q", "u", "e", "r", "y", "(", "$", "v", ":">>
    [] profile = "nested" -> <<"{", "a", "{", "a", "}", "}">>
    [] profile = "fields" -> <<"t", "y", "p", "e", " ", "A", "{", "a">>
    [] profile = "inputs" -> <<"i", "n", "p", "u", "t", " ", "A", "{", "a", ":">>
    [] OTHER -> <<>>

\* The words a profile's texts are built from.
Alphabet(profile) ==
  CASE profile = "operations" ->
         {<<"{">>, <<"}">>, <<"a">>, <<"{", "a", "}">>, <<"q", "u", "e", "r", "y">>,
          <<"m", "u", "t", "a", "t", "i", "o", "n">>,
          <<"s", "u", "b", "s", "c", "r", "i", "p", "t", "i", "o", "n">>, <<"Q">>,
          <<"@", "d">>, <<"(", "$", "v", ":", "T", ")">>, <<"(", ")">>, <<"?">>}
    [] profile = "located" ->
         {<<"{">>, <<"}">>, <<"a">>, <<"q", "u", "e", "r", "y">>, <<"@", "d">>,
          <<"s", "u", "b", "s", "c", "r", "i", "p", "t", "i", "o", "n">>, <<"{", "a", "}">>}
    [] profile = "blank" ->
         {<<"\n">>, <<",">>, <<"#", "c", "\n">>, <<"{", "a", "}">>,
          <<"s", "c", "h", "e", "m", "a">>}
    [] profile = "nested" -> {<<"{">>, <<"}">>, <<"a">>, <<".", ".", ".">>}
    [] profile = "values" ->
         {<<"1">>, <<"1", ".", "0">>, <<"-", "2", ".", "5", "e", "1">>,
          <<"\"", "x", "\"">>, <<"\"", "\\", "r", "\"">>,
          <<"\"", "\\", "\"", "\\", "\\", "\\", "n", "\\", "t", "\"">>,
          <<"t", "r", "u", "e">>, <<"f", "a", "l", "s", "e">>, <<"n", "u", "l", "l">>,
          <<"E">>, <<"$", "v">>, <<"[">>, <<"]">>,
          <<"{", "b", ":">>, <<"{">>, <<"}">>, <<")", "}">>, <<"?">>, <<"1", ".">>,
          <<"\"", "x">>}
    [] profile = "types" ->
         {<<"T">>, <<"!">>, <<"[">>, <<"]">>, <<"=", "1">>, <<")", "{", "a", "}">>}
    [] profile = "selections" ->
         {<<"{">>, <<"}">>, <<"a">>, <<"b", ":", "a">>, <<"(", "x", ":", "1", ")">>,
          <<"(", ")">>, <<".", ".", ".">>, <<"o", "n">>, <<"T">>, <<"@", "d">>,
          <<"f", "r", "a", "g", "m", "e", "n", "t", " ", "F">>,
          <<"o", "n", " ", "T">>, <<"{", "a", "}">>,
          <<"f", "r", "a", "g", "m", "e", "n", "t", " ", "o", "n">>,
          <<"f", "r", "a", "g", "m", "e", "n", "t", " ", "o", "k">>, <<"?">>}
    [] profile = "schema" ->
         {<<"s", "c", "h", "e", "m", "a">>,
          <<"i", "n", "t", "e", "r", "f", "a", "c", "e", " ", "A">>,
          <<"e", "n", "u", "m", " ", "A">>, <<"i", "n", "p", "u", "t", " ", "A">>,
          <<"t", "y", "p", "e", " ", "A">>, <<"{">>, <<"}">>, <<"a">>,
          <<"a", ":", "A">>, <<"q", "u", "e", "r", "y", ":", "A">>, <<"@", "d">>,
          <<"{", "q", "u", "e", "r", "y", ":", "A", "}">>, <<"?">>}
    [] profile = "unions" ->
         {<<"s", "c", "a", "l", "a", "r", " ", "A">>,
          <<"u", "n", "i", "o", "n", " ", "A", "=">>, <<"A">>, <<"|">>,
          <<"e", "x", "t", "e", "n", "d">>, <<"t", "y", "p", "e", " ", "A">>,
          <<"i", "m", "p", "l", "e", "m", "e", "n", "t", "s">>,
          <<"{", "a", ":", "A", "}">>,
          <<"d", "i", "r", "e", "c", "t", "i", "v", "e", " ", "@", "d", " ", "o", "n">>,
          <<"{", "a", "}">>, <<"?">>}
    [] profile = "fields" ->
         {<<"(">>, <<")">>, <<"a">>, <<":">>, <<"T">>, <<"!">>, <<"[">>, <<"]">>,
          <<"=", "1">>, <<"}">>}
    [] profile = "inputs" ->
         {<<"T">>, <<"!">>, <<"[">>, <<"]">>, <<"=", "1", ".", "0">>, <<"@", "d">>,
          <<"a", ":">>, <<"}">>}
    [] profile = "visits" ->
         {<<"{">>, <<"}">>, <<"a">>, <<"b", ":", "a">>, <<"(", "x", ":", "1", ")">>,
          <<"(", "x", ":", "[", "$", "v", ",", "{", "y", ":", "E", "}", "]", ")">>,
          <<"@", "d">>, <<".", ".", ".", "F">>, <<".", ".", ".", "o", "n", " ", "T">>,
          <<"q", "u", "e", "r", "y", " ", "Q", "(", "$", "v", ":", "[", "T", "!", "]", "=", "1", ")">>,
          <<"f", "r", "a", "g", "m", "e", "n", "t", " ", "F", " ", "o", "n", " ", "T">>}

\* The words a profile's texts may have: the profiles that start inside a
\* definition get two more, to close it.
Words(profile) ==
  IF profile \in {"types", "fields", "inputs"} THEN MaxWords + 2 ELSE MaxWords

VisitProfile ==
  [profile |-> "visits", include_location |-> FALSE, type_system |-> FALSE,
   subscriptions |-> FALSE]

\* A result that was not computed yet.
NotYet == [ok |-> FALSE, error |-> [kind |-> "NotYet"]]

NoVisitor == [parallel |-> FALSE, visitors |-> <<>>, log |-> <<>>]

\* parse or parse_without_location, as the profile says, built with the
\* profile's features.
ParseWith(cfg, text) ==
  IF cfg.include_location THEN parse(text, cfg.type_system, cfg.subscriptions)
  ELSE parse_without_location(text, cfg.type_system, cfg.subscriptions)

\* A result that lets the caller go on writing: the text is a document, or
\* the parser met no error before the end of the text.
Viable(r) == IF r.ok THEN TRUE ELSE r.error.kind = "UnexpectedEnding"

InitWith(cfg) ==
  /\ config = cfg
  /\ source = Seed(cfg.profile)
  /\ typed = 0
  /\ phase = "source"
  /\ parsed = NotYet
  /\ printed = <<>>
  /\ reparsed = NotYet
  /\ reprinted = <<>>
  /\ visitor = NoVisitor
  /\ visited = <<>>

Init == \E cfg \in Profiles : InitWith(cfg)

InitVisit == InitWith(VisitProfile)

\* The caller writes one more word of the source text, after a parse that
\* lets them go on.
TypeWord ==
  /\ phase = "parsed"
  /\ typed < Words(config.profile)
  /\ Viable(parsed)
  /\ \E w \in Alphabet(config.profile) :
       source' = (IF source = <<>> THEN w ELSE source \o <<" ">> \o w)
  /\ typed' = typed + 1
  /\ phase' = "source"
  /\ parsed' = NotYet
  /\ UNCHANGED <<config, printed, reparsed, reprinted, visitor, visited>>

\* parse(source) or parse_without_location(source)
ParseSource ==
  /\ phase = "source"
  /\ parsed' = ParseWith(config, source)
  /\ phase' = "parsed"
  /\ UNCHANGED <<config, source, typed, printed, reparsed, reprinted, visitor, visited>>

\* print(&document) of the parsed document
PrintDocument ==
  /\ phase = "parsed"
  /\ parsed.ok
  /\ printed' = print(parsed.document)
  /\ phase' = "printed"
  /\ UNCHANGED <<config, source, typed, parsed, reparsed, reprinted, visitor, visited>>

\* the second parse of parse_and_print_2x: the printed text is parsed
ParsePrinted ==
  /\ phase = "printed"
  /\ reparsed' = ParseWith(config, printed)
  /\ phase' = "reparsed"
  /\ UNCHANGED <<config, source, typed, parsed, printed, reprinted, visitor, visited>>

\* the second print of parse_and_print_2x
PrintAgain ==
  /\ phase = "reparsed"
  /\ reparsed.ok
  /\ reprinted' = print(reparsed.document)
  /\ phase' = "reprinted"
  /\ UNCHANGED <<config, source, typed, parsed, printed, reparsed, visitor, visited>>

\* The visitors a caller passes: visitor i of a list has id i.
VisitorLists ==
  UNION {[1..n -> Behaviours] : n \in 0..MaxVisitors}

VisitorsOf(behaviours) ==
  [i \in 1..Len(behaviours) |-> [id |-> i, behaviour |-> behaviours[i]]]

\* visit(&mut visitor, document), with one visitor or with
\* ParallelVisitor::new(visitors)
Visit ==
  /\ phase = "parsed"
  /\ parsed.ok
  /\ \E parallel \in BOOLEAN, behaviours \in VisitorLists :
       /\ (IF parallel THEN TRUE ELSE Len(behaviours) = 1)
       /\ LET r == visit([parallel |-> parallel, visitors |-> VisitorsOf(behaviours),
                          log |-> <<>>], parsed.document)
          IN /\ visited' = <<r.node>>
             /\ visitor' = r.w
  /\ phase' = "visited"
  /\ UNCHANGED <<config, source, typed, parsed, printed, reparsed, reprinted>>

Next == TypeWord \/ ParseSource \/ PrintDocument \/ ParsePrinted \/ PrintAgain

Spec == Init /\ [][Next]_vars

NextVisit == TypeWord \/ ParseSource \/ Visit

SpecVisit == InitVisit /\ [][NextVisit]_vars

(***************************************************************************)
(* Properties.  Each one is stated over the states of the caller: source   *)
(* is the text written so far, parsed its parse, printed the print of the  *)
(* parsed document, reparsed and reprinted the second pass.                *)
(***************************************************************************)

\* C1: round-trip AST equality.  For every text that parse_without_location
\* accepts, the printed text parses again, to a document equal to the first.
C1_RoundTripAst ==
  (phase = "reparsed" /\ ~config.include_location) =>
    IF reparsed.ok THEN reparsed.document = parsed.document ELSE FALSE

\* C2: text fixed point.  The printed text of a parsed document parses, and
\* printing that second document gives the same text character for character.
C2_TextFixedPoint ==
  /\ phase = "reparsed" => reparsed.ok
  /\ phase = "reprinted" => reprinted = printed

\* The operation definitions of a document.
OperationsOf(document) ==
  {document.definitions[i].node : i \in {j \in 1..Len(document.definitions) :
                                           document.definitions[j].tag = "Operation"}}

\* The text starts with the prefix.
StartsWith(text, prefix) ==
  IF Len(text) < Len(prefix) THEN FALSE ELSE SubSeq(text, 1, Len(prefix)) = prefix

\* The text a fresh printer holds after printing one node.
Printed(item, node) == print_item(item, Printer(<<>>, 2, 0), node).output

ShortForm(node) ==
  /\ node.operation = "Query"
  /\ node.name = <<>>
  /\ node.variable_definitions = <<>>
  /\ node.directives = <<>>

\* C3: printer shorthand.  print_operation_definition writes only the
\* selection set exactly when the operation is a Query without name,
\* variable definitions and directives; every other operation is written
\* starting with its operation-type keyword.
C3_PrinterShorthand ==
  parsed.ok =>
    \A node \in OperationsOf(parsed.document) :
      LET out == Printed("operation_definition", node)
      IN IF ShortForm(node)
         THEN out = Printed("selection_set", node.selection_set)
         ELSE /\ out # Printed("selection_set", node.selection_set)
              /\ StartsWith(out, Printed("operation_type", node.operation) \o <<" ">>)

\* A query that has a directive and nothing else, and a mutation, were printed.
C3_Witness ==
  /\ phase = "printed"
  /\ \E node \in OperationsOf(parsed.document) :
       /\ node.operation = "Query" /\ node.name = <<>>
       /\ node.variable_definitions = <<>> /\ node.directives # <<>>

\* parse_without_location with the features of the caller's build.
ParseNoLoc(text) == parse_without_location(text, config.type_system, config.subscriptions)

\* The number of definitions the text before index i holds, when a
\* definition can start at i: the text before i is a document, or holds no
\* token (then 0); -1 otherwise.
DefinitionsBefore(text, i) ==
  LET before == SubSeq(text, 1, i - 1)
      continue(r) ==
        IF r.ok THEN Len(r.document.definitions)
        ELSE IF Lex(before).items = <<>> THEN 0
        ELSE -1
  IN continue(ParseNoLoc(before))

\* The indexes of the braces that start a definition of the text.
DefinitionBraces(text) ==
  {i \in 1..Len(text) : IF text[i] = "{" THEN DefinitionsBefore(text, i) >= 0 ELSE FALSE}

\* The text with the word and a space put in before index i.
InsertWord(text, i, word) ==
  SubSeq(text, 1, i - 1) \o word \o <<" ">> \o SubSeq(text, i, Len(text))

\* C4: parser shorthand.  A definition that starts with `{` parses to a
\* Query operation without name, variable definitions and directives, and
\* the document is, locations aside, the one parsed from the text with
\* `query` written before that brace.
C4_ParserShorthand ==
  (phase = "parsed" /\ parsed.ok) =>
    \A i \in DefinitionBraces(source) :
      LET short == ParseNoLoc(source)
          explicit == ParseNoLoc(InsertWord(source, i, Kw_query))
          definition == short.document.definitions[DefinitionsBefore(source, i) + 1]
      IN /\ short.ok
         /\ definition.tag = "Operation"
         /\ definition.node.operation = "Query"
         /\ definition.node.name = <<>>
         /\ definition.node.variable_definitions = <<>>
         /\ definition.node.directives = <<>>
         /\ explicit.ok
         /\ explicit.document = short.document

\* A document of two definitions in the short form was parsed.
C4_Witness ==
  /\ phase = "parsed"
  /\ parsed.ok
  /\ Cardinality(DefinitionBraces(source)) = 2

\* The parser of the caller's build over the source text, and its cursor
\* after k items.
SourceParser ==
  Parser(Lex(source), config.include_location, config.type_system, config.subscriptions)

Cursor(k) == [k |-> k, peeked |-> FALSE]

\* Item k of the stream is a token of the kind.
IsToken(L, k, tag) ==
  IF k < 1 \/ k > Len(L.items) THEN FALSE
  ELSE IF L.items[k].err THEN FALSE
  ELSE L.items[k].kind.tag = tag

IsNameToken(L, k, name) ==
  IF IsToken(L, k, "Name") THEN L.items[k].kind.value = name ELSE FALSE

\* The lists that must hold an item and are parsed from their opening
\* punctuator: <<parser, opening, closing>>.
ListProductions ==
  {<<"selection_set", "LeftBrace", "RightBrace">>,
   <<"variable_definitions", "LeftParen", "RightParen">>,
   <<"arguments", "LeftParen", "RightParen">>,
   <<"argument_definitions", "LeftParen", "RightParen">>}

\* The definitions whose body must hold an item:
\* <<parser, keyword, has a name, field of the items>>.
BodyProductions ==
  {<<"schema_definition", Kw_schema, FALSE, "operation_types">>,
   <<"interface_type_definition", Kw_interface, TRUE, "fields">>,
   <<"enum_type_definition", Kw_enum, TRUE, "values">>,
   <<"input_object_type_definition", Kw_input, TRUE, "fields">>}

\* Items j..k of the stream are a definition's keyword, its name when it has
\* one, directives without arguments, and `{`.
HeaderUpTo(L, j, k, keyword, named) ==
  LET first == IF named THEN j + 2 ELSE j + 1
  IN /\ IsNameToken(L, j, keyword)
     /\ named => IsToken(L, j + 1, "Name")
     /\ k >= first
     /\ (k - first) % 2 = 0
     /\ \A i \in first..(k - 1) :
          IsToken(L, i, IF (i - first) % 2 = 0 THEN "At" ELSE "Name")
     /\ IsToken(L, k, "LeftBrace")

\* The result is the error UnexpectedToken of item k.
FailsAtToken(r, L, k) ==
  IF r.ok THEN FALSE
  ELSE IF r.err.kind # "UnexpectedToken" THEN FALSE
  ELSE r.err.token = L.items[k]

C6_DocumentNeedsDefinition ==
  phase = "parsed" =>
    /\ Lex(source).items = <<>> =>
         IF parsed.ok THEN FALSE
         ELSE /\ parsed.error = UnexpectedEnding(Lex(source).endpos)
              /\ source = <<>> => parsed.error.pos = [index |-> 0, line |-> 1, column |-> 1]
    /\ parsed.ok => parsed.document.definitions # <<>>

\* A text of ignored characters only was parsed.
C6_Witness ==
  /\ phase = "parsed"
  /\ source # <<>>
  /\ Lex(source).items = <<>>
  /\ ~parsed.ok

\* No NonNull type of the type holds a NonNull type.
RECURSIVE SingleBang(_)
SingleBang(type) ==
  CASE type.tag = "Named" -> TRUE
    [] type.tag = "List" -> SingleBang(type.node.typ)
    [] type.tag = "NonNull" ->
         IF type.node.typ.tag = "NonNull" THEN FALSE ELSE SingleBang(type.node.typ)

\* The text up to the last character of item k of its stream.
TextThrough(text, k) == SubSeq(text, 1, Lex(text).items[k].end.index + 1)

\* Items k and k + 1 are `!` `!`, and the parser took the first one.
SecondBangAt(text, k) ==
  IF IsToken(Lex(text), k, "Bang") /\ IsToken(Lex(text), k + 1, "Bang")
  THEN Viable(ParseWith(config, TextThrough(text, k)))
  ELSE FALSE

\* C7: non-null typing.  parse_type_reference takes at most one `!`: no type
\* it returns is a NonNull of a NonNull, and a second `!` after a type makes
\* the parse fail with UnexpectedToken of that second `!`.
C7_SingleBang ==
  phase = "parsed" =>
    /\ \A k \in 0..Len(Lex(source).items) :
         LET r == parse_item("type_reference", SourceParser, Cursor(k))
         IN r.ok => SingleBang(r.val)
    /\ \A k \in 1..Len(Lex(source).items) :
         SecondBangAt(source, k) =>
           IF parsed.ok THEN FALSE
           ELSE parsed.error = UnexpectedToken(Lex(source).items[k + 1])

\* `!` `!` was parsed after the type of a list element.
C7_Witness ==
  /\ phase = "parsed"
  /\ \E k \in 1..Len(Lex(source).items) :
       /\ SecondBangAt(source, k)
       /\ \E j \in 1..k : IsToken(Lex(source), j, "LeftBracket")

\* Calls (b - 1) * n + 1 .. b * n of the log are one hook of a ParallelVisitor
\* over n visitors: first to last on enter, last to first on leave, each
\* call receiving what the call before it returned.
ParallelBlock(log, n, b) ==
  LET first == log[(b - 1) * n + 1]
  IN \A i \in 1..n :
       LET call == log[(b - 1) * n + i]
       IN /\ call.hook = first.hook
          /\ call.type = first.type
          /\ call.visitor = (IF first.hook = "enter" THEN i ELSE n + 1 - i)
          /\ i > 1 => call.arg = log[(b - 1) * n + i - 1].ret

\* C8: ParallelVisitor call order.  Every hook of a ParallelVisitor over
\* v1..vn calls v1..vn in that order on enter and vn..v1 on leave, each
\* receiving the node the previous one returned, and the node the last call
\* returns is the result.
C8_ParallelOrder ==
  (phase = "visited" /\ visitor.parallel) =>
    LET n == Len(visitor.visitors)
        log == visitor.log
    IN IF n = 0 THEN log = <<>> /\ visited = <<parsed.document>>
       ELSE /\ Len(log) % n = 0
            /\ \A b \in 1..(Len(log) \div n) : ParallelBlock(log, n, b)
            /\ log # <<>>
            /\ visited = <<log[Len(log)].ret>>

\* Two visitors ran in parallel, and the second one was given a node that the
\* first one had rewritten, on enter and on leave.
C8_Witness ==
  /\ phase = "visited"
  /\ visitor.parallel
  /\ Len(visitor.visitors) = 2
  /\ \E i, j \in 1..Len(visitor.log) :
       /\ visitor.log[i].hook = "enter" /\ visitor.log[i].visitor = 2
       /\ visitor.log[i - 1].arg # visitor.log[i - 1].ret
       /\ visitor.log[j].hook = "leave" /\ visitor.log[j].visitor = 1
       /\ visitor.log[j - 1].arg # visitor.log[j - 1].ret

\* The hook calls of a visit, one per hook: the calls of a ParallelVisitor's
\* hook are one call, from the first visitor's argument to the last one's
\* return value.
HookCalls(w) ==
  IF ~w.parallel THEN w.log
  ELSE LET n == Len(w.visitors)
       IN [b \in 1..(Len(w.log) \div n) |->
             [hook |-> w.log[b * n].hook, type |-> w.log[b * n].type,
              arg |-> w.log[(b - 1) * n + 1].arg, ret |-> w.log[b * n].ret]]

\* The number of nodes entered and not yet left before each call.
RECURSIVE DepthsFrom(_, _, _)
DepthsFrom(calls, i, depths) ==
  IF i > Len(calls) THEN depths
  ELSE DepthsFrom(calls, i + 1,
                  Append(depths,
                         IF i = 1 THEN 0
                         ELSE IF calls[i - 1].hook = "enter" THEN depths[i - 1] + 1
                         ELSE depths[i - 1] - 1))

Depths(calls) == DepthsFrom(calls, 1, <<>>)

\* The leave call that closes the enter call i (0 when there is none).
RECURSIVE LeaveFrom(_, _, _, _)
LeaveFrom(calls, depths, i, j) ==
  IF j > Len(calls) THEN 0
  ELSE IF calls[j].hook = "leave" /\ depths[j] = depths[i] + 1 THEN j
  ELSE LeaveFrom(calls, depths, i, j + 1)

LeaveOf(calls, depths, i) == LeaveFrom(calls, depths, i, i + 1)

\* The enter calls made directly under the enter call i, in call order.
RECURSIVE EntersFrom(_, _, _, _, _)
EntersFrom(calls, depths, i, k, found) ==
  IF k > Len(calls) THEN found
  ELSE IF depths[k] <= depths[i] THEN found
  ELSE EntersFrom(calls, depths, i, k + 1,
                  IF calls[k].hook = "enter" /\ depths[k] = depths[i] + 1
                  THEN Append(found, [type |-> calls[k].type, node |-> calls[k].arg])
                  ELSE found)

EntersUnder(calls, depths, i) == EntersFrom(calls, depths, i, i + 1, <<>>)

Kids(type, nodes) == [i \in 1..Len(nodes) |-> [type |-> type, node |-> nodes[i]]]

\* The children of a node, as the declarations of ast.rs order them.
Children(type, node) ==
  CASE type = "Document" -> Kids("Definition", node.definitions)
    [] type = "Definition" ->
         Kids(IF node.tag = "Operation" THEN "OperationDefinition" ELSE "FragmentDefinition",
              <<node.node>>)
    [] type = "OperationDefinition" ->
         Kids("Name", node.name) \o Kids("VariableDefinition", node.variable_definitions)
           \o Kids("Directive", node.directives) \o Kids("SelectionSet", <<node.selection_set>>)
    [] type = "VariableDefinition" ->
         Kids("Variable", <<node.variable>>) \o Kids("Type", <<node.typ>>)
           \o Kids("Value", node.default_value)
    [] type = "Variable" -> Kids("Name", <<node.name>>)
    [] type = "SelectionSet" -> Kids("Selection", node.selections)
    [] type = "Selection" -> Kids(node.tag, <<node.node>>)
    [] type = "Field" ->
         Kids("Name", node.alias) \o Kids("Name", <<node.name>>)
           \o Kids("Argument", node.arguments) \o Kids("Directive", node.directives)
           \o Kids("SelectionSet", node.selection_set)
    [] type = "Argument" -> Kids("Name", <<node.name>>) \o Kids("Value", <<node.value>>)
    [] type = "FragmentSpread" ->
         Kids("Name", <<node.name>>) \o Kids("Directive", node.directives)
    [] type = "InlineFragment" ->
         Kids("NamedType", node.type_condition) \o Kids("Directive", node.directives)
           \o Kids("SelectionSet", <<node.selection_set>>)
    [] type = "FragmentDefinition" ->
         Kids("Name", <<node.name>>) \o Kids("NamedType", <<node.type_condition>>)
           \o Kids("Directive", node.directives) \o Kids("SelectionSet", <<node.selection_set>>)
    [] type = "Directive" ->
         Kids("Name", <<node.name>>) \o Kids("Argument", node.arguments)
    [] type = "Value" ->
         Kids(CASE node.tag = "Variable" -> "Variable"
                [] node.tag = "Int" -> "IntValue"
                [] node.tag = "Float" -> "FloatValue"
                [] node.tag = "String" -> "StringValue"
                [] node.tag = "Boolean" -> "BooleanValue"
                [] node.tag = "Null" -> "NullValue"
                [] node.tag = "Enum" -> "EnumValue"
                [] node.tag = "List" -> "ListValue"
                [] node.tag = "Object" -> "ObjectValue",
              <<node.node>>)
    [] type = "ListValue" -> Kids("Value", node.values)
    [] type = "ObjectValue" -> Kids("ObjectField", node.fields)
    [] type = "ObjectField" -> Kids("Name", <<node.name>>) \o Kids("Value", <<node.value>>)
    [] type = "Type" ->
         Kids(CASE node.tag = "Named" -> "NamedType"
                [] node.tag = "List" -> "ListType"
                [] node.tag = "NonNull" -> "NonNullType",
              <<node.node>>)
    [] type = "NullableType" ->
         Kids(IF node.tag = "Named" THEN "NamedType" ELSE "ListType", <<node.node>>)
    [] type = "NamedType" -> Kids("Name", <<node.name>>)
    [] type = "ListType" -> Kids("Type", <<node.typ>>)
    [] type = "NonNullType" -> Kids("NullableType", <<node.typ>>)
    [] OTHER -> <<>>

\* C9: visitor traversal order.  The hook calls of visit(document) are a
\* well-nested bracket sequence that opens with the document's enter and
\* closes with its leave: every enter is closed by one leave of its type,
\* and the nodes entered directly under a node are its children, each once,
\* in declaration order and list elements left to right.
C9_TraversalOrder ==
  (phase = "visited" /\ visitor.visitors # <<>>) =>
    LET calls == HookCalls(visitor)
        depths == Depths(calls)
    IN /\ calls # <<>>
       /\ calls[1].hook = "enter" /\ calls[1].type = "Document"
       /\ calls[1].arg = parsed.document
       /\ LeaveOf(calls, depths, 1) = Len(calls)
       /\ \A i \in 1..Len(calls) :
            IF calls[i].hook = "leave" THEN depths[i] >= 1
            ELSE /\ LeaveOf(calls, depths, i) # 0
                 /\ calls[LeaveOf(calls, depths, i)].type = calls[i].type
                 /\ EntersUnder(calls, depths, i) = Children(calls[i].type, calls[i].ret)

\* A field with an alias and arguments was visited.
C9_Witness ==
  /\ phase = "visited"
  /\ visitor.visitors # <<>>
  /\ \E i \in 1..Len(visitor.log) :
       LET call == visitor.log[i]
       IN /\ call.hook = "enter" /\ call.type = "Field"
          /\ call.ret.alias # <<>> /\ call.ret.arguments # <<>>

\* What the leave hooks of the nodes visited directly under the enter call i
\* returned, in call order.
RECURSIVE LeavesFrom(_, _, _, _, _)
LeavesFrom(calls, depths, i, k, found) ==
  IF k > Len(calls) THEN found
  ELSE IF depths[k] <= depths[i] THEN found
  ELSE LeavesFrom(calls, depths, i, k + 1,
                  IF calls[k].hook = "leave" /\ depths[k] = depths[i] + 2
                  THEN Append(found, [type |-> calls[k].type, node |-> calls[k].ret])
                  ELSE found)

LeavesUnder(calls, depths, i) == LeavesFrom(calls, depths, i, i + 1, <<>>)

\* The fields of a node that hold its children.
ChildFields(type) ==
  CASE type = "Document" -> {"definitions"}
    [] type \in {"Definition", "Selection", "Value", "Type", "NullableType"} -> {"node"}
    [] type = "OperationDefinition" ->
         {"name", "variable_definitions", "directives", "selection_set"}
    [] type = "VariableDefinition" -> {"variable", "typ", "default_value"}
    [] type \in {"Variable", "NamedType"} -> {"name"}
    [] type = "SelectionSet" -> {"selections"}
    [] type = "Field" -> {"alias", "name", "arguments", "directives", "selection_set"}
    [] type \in {"Argument", "ObjectField"} -> {"name", "value"}
    [] type = "FragmentSpread" -> {"name", "directives"}
    [] type = "InlineFragment" -> {"type_condition", "directives", "selection_set"}
    [] type = "FragmentDefinition" ->
         {"name", "type_condition", "directives", "selection_set"}
    [] type = "Directive" -> {"name", "arguments"}
    [] type = "ListValue" -> {"values"}
    [] type = "ObjectValue" -> {"fields"}
    [] type \in {"ListType", "NonNullType"} -> {"typ"}
    [] OTHER -> {}

\* C10: visitor rewrite threading.  In every visit_X the children traversed,
\* and for the enum-like nodes the variant recursed into, are those of the
\* node the enter hook returned; the leave hook receives that node with each
\* child replaced by what the child's own leave hook returned; and what
\* visit() returns is what the document's leave hook returned.
C10_RewriteThreading ==
  (phase = "visited" /\ visitor.visitors # <<>>) =>
    LET calls == HookCalls(visitor)
        depths == Depths(calls)
    IN /\ visited = <<calls[Len(calls)].ret>>
       /\ \A i \in 1..Len(calls) :
            calls[i].hook = "enter" =>
              LET entered == calls[i].ret
                  left == calls[LeaveOf(calls, depths, i)].arg
              IN /\ EntersUnder(calls, depths, i) = Children(calls[i].type, entered)
                 /\ Children(calls[i].type, left) = LeavesUnder(calls, depths, i)
                 /\ DOMAIN left = DOMAIN entered
                 /\ \A f \in DOMAIN entered \ ChildFields(calls[i].type) :
                      left[f] = entered[f]

\* An enter hook returned another variant than it was given, and the
\* children visited under it rewrote themselves.
C10_Witness ==
  /\ phase = "visited"
  /\ visitor.visitors # <<>>
  /\ LET calls == HookCalls(visitor)
         depths == Depths(calls)
     IN \E i \in 1..Len(calls) :
          /\ calls[i].hook = "enter" /\ calls[i].type \in {"Selection", "Value"}
          /\ calls[i].ret.tag # calls[i].arg.tag
          /\ calls[LeaveOf(calls, depths, i)].arg # calls[i].ret

\* The names parse_operation_type takes as an operation type.
OperationTypeNames(p) ==
  {Kw_query, Kw_mutation} \cup (IF p.subscriptions THEN {Kw_subscription} ELSE {})

\* Item k of the stream is where the parser parses an OperationType: the
\* first token of a document that parse_definition sends to
\* parse_operation_definition, or the first token of the body of a schema
\* definition.
OperationTypePosition(p, k) ==
  LET L == p.lexer
  IN \/ /\ k = 1
        /\ \E kw \in {Kw_query, Kw_mutation, Kw_subscription} : IsNameToken(L, 1, kw)
     \/ /\ k = 3 /\ p.type_system
        /\ IsNameToken(L, 1, Kw_schema) /\ IsToken(L, 2, "LeftBrace")
        /\ IsToken(L, 3, "Name")

\* C11: offending-token errors.  Whenever parse returns
\* Err(UnexpectedToken(t)), every token before t was accepted and t is the
\* token that could not be: the text up to any earlier token still lets the
\* parse go on, the text up to t does not, and a name that is no operation
\* type at an OperationType position is the token reported.
C11_OffendingToken ==
  (phase = "parsed" /\ ~parsed.ok /\ parsed.error.kind = "UnexpectedToken") =>
    LET L == Lex(source)
    IN /\ \E k \in 1..Len(L.items) :
            /\ parsed.error.token = L.items[k]
            /\ \A j \in 1..(k - 1) : Viable(ParseWith(config, TextThrough(source, j)))
            /\ ParseWith(config, TextThrough(source, k)) = parsed
       /\ \A k \in 1..Len(L.items) :
            (/\ OperationTypePosition(SourceParser, k)
             /\ L.items[k].kind.value \notin OperationTypeNames(SourceParser)) =>
              parsed.error.token = L.items[k]

\* The cursors at which parse_document's loop calls parse_definition, from
\* cursor k on.
RECURSIVE DefinitionStarts(_, _)
DefinitionStarts(p, k) ==
  IF ~HasNext(p, Cursor(k)) THEN {}
  ELSE LET r == parse_item("definition", p, Cursor(k))
       IN {k} \cup (IF r.ok THEN DefinitionStarts(p, r.s.k) ELSE {})

\* The result of a production wrapped in a variant of Definition.
AsDefinition(tag, r) == IF ~r.ok THEN r ELSE Ok([tag |-> tag, node |-> r.val], r.s)

\* What C12 says parse_definition does with the token at item k + 1.
DefinitionDispatch(p, k) ==
  LET L == p.lexer
      token == L.items[k + 1]
      s == Peeked(Cursor(k))
      r == parse_item("definition", p, Cursor(k))
  IN IF token.err THEN ~r.ok /\ r.err.kind = "Lexer"
     ELSE IF \/ token.kind.tag = "LeftBrace"
             \/ \E kw \in {Kw_query, Kw_mutation, Kw_subscription} : IsNameToken(L, k + 1, kw)
       THEN r = AsDefinition("Operation", parse_item("operation_definition", p, s))
     ELSE IF IsNameToken(L, k + 1, Kw_fragment)
       THEN r = AsDefinition("Fragment", parse_item("fragment_definition", p, s))
     ELSE IF \E kw \in TypeSystemKeywords : IsNameToken(L, k + 1, kw)
       THEN IF p.type_system
            THEN r = AsDefinition("TypeSystem", parse_item("type_system_definition", p, s))
            ELSE ~r.ok /\ r.err = UnexpectedToken(token)
     ELSE ~r.ok /\ r.err = UnexpectedToken(token)

\* C12: definition dispatch.  parse_definition chooses the production from
\* the next token without consuming it: `{`, query, mutation or subscription
\* an operation definition, fragment a fragment definition, a type-system
\* keyword a type-system definition when type_system is enabled and else
\* UnexpectedToken of the keyword, any other token UnexpectedToken of it.
C12_DefinitionDispatch ==
  phase = "parsed" =>
    \A k \in DefinitionStarts(SourceParser, 0) :
        /\ DefinitionDispatch(SourceParser, k)
        /\ LET r == parse_item("definition", SourceParser, Cursor(k))
           IN ~r.ok => IF parsed.ok THEN FALSE ELSE parsed.error = r.err

\* A second definition started with a type-system keyword while type_system
\* was not enabled, and the parse failed with that keyword.
C12_Witness ==
  /\ phase = "parsed"
  /\ ~config.type_system
  /\ \E k \in DefinitionStarts(SourceParser, 0) \ {0} :
       /\ IsNameToken(Lex(source), k + 1, Kw_schema)
       /\ ~parsed.ok
       /\ parsed.error = UnexpectedToken(Lex(source).items[k + 1])

\* C13: subscription gating.  A definition that starts with `subscription`
\* parses to an operation whose type is Subscription when subscriptions are
\* enabled, and makes the parse fail with UnexpectedToken of the
\* `subscription` token when they are not.
C13_SubscriptionGating ==
  phase = "parsed" =>
    \A k \in DefinitionStarts(SourceParser, 0) :
      IsNameToken(Lex(source), k + 1, Kw_subscription) =>
        LET r == parse_item("definition", SourceParser, Cursor(k))
        IN IF config.subscriptions
           THEN r.ok => r.val.tag = "Operation" /\ r.val.node.operation = "Subscription"
           ELSE IF parsed.ok THEN FALSE
                ELSE parsed.error = UnexpectedToken(Lex(source).items[k + 1])

\* The cursors at which the loop of a selection set calls parse_selection,
\* from cursor k on.
RECURSIVE SelectionStartsFrom(_, _)
SelectionStartsFrom(p, k) ==
  IF ~HasNext(p, Cursor(k)) THEN {}
  ELSE LET r == parse_item("selection", p, Cursor(k))
       IN {k} \cup (IF r.ok /\ ~check(p, r.s, "RightBrace")
                    THEN SelectionStartsFrom(p, r.s.k) ELSE {})

\* The cursors at which the selections of the shorthand operations of the
\* text start.
SelectionStarts(p) ==
  UNION {SelectionStartsFrom(p, k + 1) :
           k \in {j \in DefinitionStarts(p, 0) : IsToken(p.lexer, j + 1, "LeftBrace")}}

\* What C14 says of the selection that starts at item k + 1.
SelectionDispatch(p, k) ==
  LET L == p.lexer
      r == parse_item("selection", p, Cursor(k))
      inline(condition, after) ==
        LET d == parse_item("directives", p, after)
        IN r.ok => /\ r.val.tag = "InlineFragment"
                   /\ r.val.node.type_condition = condition
                   /\ d.ok /\ r.val.node.directives = d.val
                   /\ check(p, d.s, "LeftBrace")
                   /\ r.val.node.selection_set = parse_item("selection_set", p, d.s).val
  IN IF ~IsToken(L, k + 1, "Ellipsis") THEN r.ok => r.val.tag = "Field"
     ELSE IF IsToken(L, k + 2, "Name") /\ ~IsNameToken(L, k + 2, Kw_on)
       THEN LET d == parse_item("directives", p, Cursor(k + 2))
            IN IF d.ok THEN /\ r.ok
                            /\ r.val.tag = "FragmentSpread"
                            /\ r.val.node.name.value = L.items[k + 2].kind.value
                            /\ r.val.node.directives = d.val
                            /\ r.s.k = d.s.k
               ELSE ~r.ok /\ r.err = d.err
     ELSE IF IsNameToken(L, k + 2, Kw_on)
       THEN LET t == parse_item("named_type", p, Cursor(k + 2))
            IN IF t.ok THEN inline(<<t.val>>, t.s) ELSE ~r.ok /\ r.err = t.err
     ELSE inline(<<>>, Peeked(Cursor(k + 1)))

\* The selections of a selection set and of the selection sets under it.
RECURSIVE SelectionsIn(_)
SelectionsIn(selection_set) ==
  LET each == {selection_set.selections[i] : i \in 1..Len(selection_set.selections)}
      under(selection) ==
        CASE selection.tag = "Field" ->
               IF selection.node.selection_set = <<>> THEN {}
               ELSE SelectionsIn(selection.node.selection_set[1])
          [] selection.tag = "InlineFragment" -> SelectionsIn(selection.node.selection_set)
          [] OTHER -> {}
  IN each \cup UNION {under(selection) : selection \in each}

\* The selections of a document.
SelectionsOf(document) ==
  UNION {SelectionsIn(document.definitions[i].node.selection_set) :
           i \in {j \in 1..Len(document.definitions) :
                    document.definitions[j].tag \in {"Operation", "Fragment"}}}

RECURSIVE ValueStartsFrom(_, _)
RECURSIVE ListElementStarts(_, _)
RECURSIVE ObjectFieldStarts(_, _)
ValueStartsFrom(p, k) ==
  {k} \cup (IF IsToken(p.lexer, k + 1, "LeftBracket") THEN ListElementStarts(p, k + 1)
            ELSE IF IsToken(p.lexer, k + 1, "LeftBrace") THEN ObjectFieldStarts(p, k + 1)
            ELSE {})

ListElementStarts(p, k) ==
  IF ~HasNext(p, Cursor(k)) \/ IsToken(p.lexer, k + 1, "RightBracket") THEN {}
  ELSE LET r == parse_item("value_literal", p, Cursor(k))
       IN ValueStartsFrom(p, k) \cup (IF r.ok THEN ListElementStarts(p, r.s.k) ELSE {})

ObjectFieldStarts(p, k) ==
  IF IsToken(p.lexer, k + 1, "Name") /\ IsToken(p.lexer, k + 2, "Colon")
  THEN LET r == parse_item("value_literal", p, Cursor(k + 2))
       IN ValueStartsFrom(p, k + 2) \cup (IF r.ok THEN ObjectFieldStarts(p, r.s.k) ELSE {})
  ELSE {}

ValueStarts(p) ==
  IF /\ IsToken(p.lexer, 1, "LeftBrace") /\ IsToken(p.lexer, 2, "Name")
     /\ IsToken(p.lexer, 3, "LeftParen") /\ IsToken(p.lexer, 4, "Name")
     /\ IsToken(p.lexer, 5, "Colon")
  THEN ValueStartsFrom(p, 5)
  ELSE {}

\* What C15 says of the value that starts at item k + 1.
ValueDispatch(p, k) ==
  LET L == p.lexer
      r == parse_item("value_literal", p, Cursor(k))
      token == L.items[k + 1]
      literal(tag) ==
        /\ r.ok /\ r.val.tag = tag /\ r.val.node.value = token.kind.value /\ r.s.k = k + 1
  IN IF k >= Len(L.items) THEN ~r.ok /\ r.err = UnexpectedEnding(L.endpos)
     ELSE IF token.err THEN ~r.ok /\ r.err = LexerErr(token.error)
     ELSE IF token.kind.tag = "LeftBracket"
       THEN /\ r.ok => r.val.tag = "List"
            /\ IsToken(L, k + 2, "RightBracket") => r.ok /\ r.val.node.values = <<>>
     ELSE IF token.kind.tag = "LeftBrace"
       THEN /\ r.ok => r.val.tag = "Object"
            /\ IsToken(L, k + 2, "RightBrace") => r.ok /\ r.val.node.fields = <<>>
     ELSE IF IsNameToken(L, k + 1, Kw_null) THEN r.ok /\ r.val.tag = "Null" /\ r.s.k = k + 1
     ELSE IF IsNameToken(L, k + 1, Kw_true)
       THEN r.ok /\ r.val.tag = "Boolean" /\ r.val.node.value = TRUE /\ r.s.k = k + 1
     ELSE IF IsNameToken(L, k + 1, Kw_false)
       THEN r.ok /\ r.val.tag = "Boolean" /\ r.val.node.value = FALSE /\ r.s.k = k + 1
     ELSE IF token.kind.tag = "Dollar"
       THEN /\ r.ok => r.val.tag = "Variable"
            /\ IsToken(L, k + 2, "Name") =>
                 r.ok /\ r.val.node.name.value = L.items[k + 2].kind.value
     ELSE IF token.kind.tag = "Int" THEN literal("Int")
     ELSE IF token.kind.tag = "Float" THEN literal("Float")
     ELSE IF token.kind.tag = "String" THEN literal("String")
     ELSE IF token.kind.tag = "Name" THEN literal("Enum")
     ELSE ~r.ok /\ r.err = UnexpectedToken(token)

\* C15: value dispatch by leading token.  `[` gives a List and `{` an
\* Object, empty ones included; null, true and false give Null and the two
\* Booleans; `$` a Variable; an Int, Float or String token its literal; any
\* other name an Enum of that name; any other token UnexpectedToken of it,
\* the end of the stream UnexpectedEnding.  No Enum is named null, true or
\* false.
C15_ValueDispatch ==
  phase = "parsed" =>
    \A k \in ValueStarts(SourceParser) :
      /\ ValueDispatch(SourceParser, k)
      /\ LET r == parse_item("value_literal", SourceParser, Cursor(k))
         IN (r.ok /\ r.val.tag = "Enum") =>
              r.val.node.value \notin {Kw_null, Kw_true, Kw_false}

\* The name true was parsed as a value inside a list.
C15_Witness ==
  /\ phase = "parsed"
  /\ \E k \in ValueStarts(SourceParser) \ {5} :
       /\ IsNameToken(Lex(source), k + 1, Kw_true)
       /\ parse_item("value_literal", SourceParser, Cursor(k)).ok

\* The enums of ast.rs: the node type of each variant.
VariantType(type, tag) ==
  CASE type = "Definition" ->
         (CASE tag = "Operation" -> "OperationDefinition"
            [] tag = "Fragment" -> "FragmentDefinition"
            [] tag = "TypeSystem" -> "TypeSystemDefinition")
    [] type = "Selection" -> tag
    [] type = "Value" ->
         (CASE tag = "Variable" -> "Variable"
            [] tag = "List" -> "ListValue"
            [] tag = "Object" -> "ObjectValue"
            [] OTHER -> "Literal")
    [] type \in {"Type", "NullableType"} ->
         (CASE tag = "Named" -> "NamedType"
            [] tag = "List" -> "ListType"
            [] tag = "NonNull" -> "NonNullType")
    [] type = "TypeSystemDefinition" ->
         (CASE tag = "Schema" -> "SchemaDefinition"
            [] tag = "Type" -> "TypeDefinition"
            [] tag = "TypeExtension" -> "TypeExtensionDefinition"
            [] tag = "Directive" -> "DirectiveDefinition")
    [] type = "TypeDefinition" ->
         (CASE tag = "Scalar" -> "ScalarTypeDefinition"
            [] tag = "Object" -> "ObjectTypeDefinition"
            [] tag = "Interface" -> "InterfaceTypeDefinition"
            [] tag = "Union" -> "UnionTypeDefinition"
            [] tag = "Enum" -> "EnumTypeDefinition"
            [] tag = "InputObject" -> "InputObjectTypeDefinition")

EnumTypes ==
  {"Definition", "Selection", "Value", "Type", "NullableType", "TypeSystemDefinition",
   "TypeDefinition"}

\* The structs of ast.rs: the node type of each field that holds nodes (one
\* node, or a Vec or an Option of them).
NodeFields(type) ==
  LET single(field, of) == [field |-> field, many |-> FALSE, type |-> of]
      several(field, of) == [field |-> field, many |-> TRUE, type |-> of]
      name == single("name", "Name")
      directives == several("directives", "Directive")
  IN CASE type = "Document" -> {several("definitions", "Definition")}
       [] type = "OperationDefinition" ->
            {several("name", "Name"), several("variable_definitions", "VariableDefinition"),
             directives, single("selection_set", "SelectionSet")}
       [] type = "VariableDefinition" ->
            {single("variable", "Variable"), single("typ", "Type"), several("default_value", "Value")}
       [] type = "Variable" -> {name}
       [] type = "SelectionSet" -> {several("selections", "Selection")}
       [] type = "Field" ->
            {several("alias", "Name"), name, several("arguments", "Argument"), directives,
             several("selection_set", "SelectionSet")}
       [] type \in {"Argument", "ObjectField"} -> {name, single("value", "Value")}
       [] type = "FragmentSpread" -> {name, directives}
       [] type = "InlineFragment" ->
            {several("type_condition", "NamedType"), directives,
             single("selection_set", "SelectionSet")}
       [] type = "FragmentDefinition" ->
            {name, single("type_condition", "NamedType"), directives,
             single("selection_set", "SelectionSet")}
       [] type = "Directive" -> {name, several("arguments", "Argument")}
       [] type = "ListValue" -> {several("values", "Value")}
       [] type = "ObjectValue" -> {several("fields", "ObjectField")}
       [] type = "NamedType" -> {name}
       [] type = "ListType" -> {single("typ", "Type")}
       [] type = "NonNullType" -> {single("typ", "NullableType")}
       [] type = "SchemaDefinition" ->
            {directives, several("operation_types", "OperationTypeDefinition")}
       [] type = "OperationTypeDefinition" -> {single("typ", "NamedType")}
       [] type \in {"ScalarTypeDefinition", "EnumValueDefinition"} -> {name, directives}
       [] type = "ObjectTypeDefinition" ->
            {name, several("interfaces", "NamedType"), directives,
             several("fields", "FieldDefinition")}
       [] type = "FieldDefinition" ->
            {name, several("arguments", "InputValueDefinition"), single("typ", "Type"), directives}
       [] type = "InputValueDefinition" ->
            {name, single("typ", "Type"), several("default_value", "Value"), directives}
       [] type = "InterfaceTypeDefinition" ->
            {name, directives, several("fields", "FieldDefinition")}
       [] type = "UnionTypeDefinition" -> {name, directives, several("types", "NamedType")}
       [] type = "EnumTypeDefinition" ->
            {name, directives, several("values", "EnumValueDefinition")}
       [] type = "InputObjectTypeDefinition" ->
            {name, directives, several("fields", "InputValueDefinition")}
       [] type = "TypeExtensionDefinition" -> {single("definition", "ObjectTypeDefinition")}
       [] type = "DirectiveDefinition" ->
            {name, several("arguments", "InputValueDefinition"), several("locations", "Name")}
       [] OTHER -> {}

\* The node with the loc of every node under it, itself included, erased.
RECURSIVE EraseLoc(_, _)
EraseLoc(type, node) ==
  IF type \in EnumTypes
  THEN [tag |-> node.tag, node |-> EraseLoc(VariantType(type, node.tag), node.node)]
  ELSE [f \in DOMAIN node |->
          IF f = "loc" THEN <<>>
          ELSE IF \E nf \in NodeFields(type) : nf.field = f
            THEN LET nf == CHOOSE x \in NodeFields(type) : x.field = f
                 IN IF nf.many THEN [i \in DOMAIN node[f] |-> EraseLoc(nf.type, node[f][i])]
                    ELSE EraseLoc(nf.type, node[f])
          ELSE node[f]]

\* Every node under the node, itself included, has a loc.
RECURSIVE Located(_, _)
Located(type, node) ==
  IF type \in EnumTypes THEN Located(VariantType(type, node.tag), node.node)
  ELSE /\ node.loc # <<>>
       /\ \A nf \in NodeFields(type) :
            IF nf.many THEN \A i \in DOMAIN node[nf.field] : Located(nf.type, node[nf.field][i])
            ELSE Located(nf.type, node[nf.field])

\* C16: location flag equivalence.  On every text parse and
\* parse_without_location stop at the same token and agree: the same error,
\* or two documents that are equal once every loc is erased, every node of
\* the first with a loc and every node of the second without.
C16_LocationFlag ==
  phase = "parsed" =>
    LET with == parse_item("document",
                           Parser(Lex(source), TRUE, config.type_system, config.subscriptions),
                           StartCursor)
        without == parse_item("document",
                              Parser(Lex(source), FALSE, config.type_system,
                                     config.subscriptions),
                              StartCursor)
    IN /\ with.ok = without.ok
       /\ with.s = without.s
       /\ Outcome(with) = parse(source, config.type_system, config.subscriptions)
       /\ Outcome(without) =
            parse_without_location(source, config.type_system, config.subscriptions)
       /\ IF with.ok
          THEN /\ EraseLoc("Document", with.val) = without.val
               /\ Located("Document", with.val)
          ELSE with.err = without.err

\* A document with a type-system definition was parsed both ways.
C16_Witness ==
  /\ phase = "parsed"
  /\ parsed.ok
  /\ parsed.document.definitions[1].tag = "TypeSystem"
  /\ Located("Document", parse(source, config.type_system, config.subscriptions).document)
  /\ parsed.document.loc = <<>>

\* The error is the one raised at the last item taken from the stream.
RaisedAt(L, err, k) ==
  CASE err.kind = "UnexpectedToken" -> k >= 1 /\ k <= Len(L.items) /\ err.token = L.items[k]
    [] err.kind = "Lexer" ->
         k >= 1 /\ k <= Len(L.items) /\ L.items[k].err /\ err.error = L.items[k].error
    [] err.kind = "UnexpectedEnding" -> k = Len(L.items) /\ err.pos = L.endpos

\* C17: first error wins, no recovery.  The error parse returns is the first
\* one raised: it is raised at the last item taken, no item after it is
\* taken and what follows plays no part; and when a sub-parser the descent
\* called has failed, parse returns that error, never Ok.
C17_FirstErrorWins ==
  phase = "parsed" =>
    LET L == Lex(source)
        d == parse_item("document", SourceParser, StartCursor)
        failed(item, k) ==
          LET r == parse_item(item, SourceParser, Cursor(k))
          IN ~r.ok => ~d.ok /\ d.err = r.err /\ d.s.k = r.s.k
    IN /\ Outcome(d) = parsed
       /\ ~d.ok =>
            /\ RaisedAt(L, d.err, d.s.k)
            /\ \A j \in 1..(d.s.k - 1) : ~L.items[j].err
            /\ (d.s.k >= 1 /\ ~L.items[d.s.k].err) =>
                 ParseWith(config, TextThrough(source, d.s.k)) = parsed
       /\ \A k \in DefinitionStarts(SourceParser, 0) : failed("definition", k)
       /\ \A k \in SelectionStarts(SourceParser) : failed("selection", k)
       /\ \A k \in ValueStarts(SourceParser) : failed("value_literal", k)

\* A value inside a list failed to parse, and tokens were left untaken.
C17_Witness ==
  /\ phase = "parsed"
  /\ ~parsed.ok
  /\ parse_item("document", SourceParser, StartCursor).s.k < Len(Lex(source).items)
  /\ \E k \in ValueStarts(SourceParser) \ {5} :
       ~parse_item("value_literal", SourceParser, Cursor(k)).ok

\* The number of items after item k that alternate name, `|`, name, ...
RECURSIVE NamesAndPipes(_, _, _)
NamesAndPipes(L, k, m) ==
  IF IsToken(L, k + m + 1, IF m % 2 = 0 THEN "Name" ELSE "Pipe")
  THEN NamesAndPipes(L, k, m + 1)
  ELSE m

\* The cursors at which the members of a union and the locations of a
\* directive definition start.
UnionMemberStarts(p) ==
  {j + 3 : j \in {i \in DefinitionStarts(p, 0) :
                    /\ p.type_system
                    /\ IsNameToken(p.lexer, i + 1, Kw_union) /\ IsToken(p.lexer, i + 2, "Name")
                    /\ IsToken(p.lexer, i + 3, "Equals")}}

DirectiveLocationStarts(p) ==
  {j + 4 : j \in {i \in DefinitionStarts(p, 0) :
                    /\ p.type_system
                    /\ IsNameToken(p.lexer, i + 1, Kw_directive) /\ IsToken(p.lexer, i + 2, "At")
                    /\ IsToken(p.lexer, i + 3, "Name") /\ IsNameToken(p.lexer, i + 4, Kw_on)}}

\* What C18 says of the list that starts at item k + 1: names holds the name
\* of each element parsed.
PipeSeparated(p, k, r, names) ==
  LET L == p.lexer
      m == NamesAndPipes(L, k, 0)
  IN IF m % 2 = 1
     THEN /\ r.ok
          /\ r.s.k = k + m
          /\ Len(names) = (m + 1) \div 2
          /\ names # <<>>
          /\ \A i \in 1..Len(names) : names[i] = L.items[k + 2 * i - 1].kind.value
          /\ L.items[r.s.k].kind.tag = "Name"
     ELSE /\ ~r.ok
          /\ IF k + m + 1 > Len(L.items) THEN r.err = UnexpectedEnding(L.endpos)
             ELSE IF L.items[k + m + 1].err THEN r.err.kind = "Lexer"
             ELSE r.err = UnexpectedToken(L.items[k + m + 1])
          /\ IF parsed.ok THEN FALSE ELSE parsed.error = r.err

\* C18: pipe-separated lists.  Union members and directive locations are one
\* or more names separated by `|`: never empty, a leading `|` fails with
\* UnexpectedToken of that pipe, and a `|` that no name follows makes the
\* parse fail, so no list parsed ends with a pipe.
C18_PipeSeparated ==
  phase = "parsed" =>
    /\ \A k \in UnionMemberStarts(SourceParser) :
         LET r == parse_item("union_members", SourceParser, Cursor(k))
         IN PipeSeparated(SourceParser, k, r,
                          IF r.ok THEN [i \in 1..Len(r.val) |-> r.val[i].name.value] ELSE <<>>)
    /\ \A k \in DirectiveLocationStarts(SourceParser) :
         LET r == parse_item("directive_locations", SourceParser, Cursor(k))
         IN PipeSeparated(SourceParser, k, r,
                          IF r.ok THEN [i \in 1..Len(r.val) |-> r.val[i].value] ELSE <<>>)

\* A union of two members separated by a pipe was parsed.
C18_Witness ==
  /\ phase = "parsed"
  /\ \E k \in UnionMemberStarts(SourceParser) :
       LET r == parse_item("union_members", SourceParser, Cursor(k))
       IN /\ r.ok
          /\ Len(r.val) = 2

\* What C19 says of the field that starts at item k + 1, a name.
FieldShape(p, k) ==
  LET L == p.lexer
      r == parse_item("field", p, Cursor(k))
      aliased == IsToken(L, k + 2, "Colon")
      c == IF aliased THEN k + 3 ELSE k + 1
      a == IF IsToken(L, c + 1, "LeftParen") THEN parse_item("arguments", p, Cursor(c))
           ELSE Ok(<<>>, Peeked(Cursor(c)))
      d == parse_item("directives", p, a.s)
      ss == IF check(p, d.s, "LeftBrace") THEN parse_item("selection_set", p, d.s)
            ELSE Ok(<<>>, d.s)
  IN IF aliased /\ ~IsToken(L, k + 3, "Name")
     THEN /\ ~r.ok
          /\ IF k + 3 > Len(L.items) THEN r.err = UnexpectedEnding(L.endpos)
             ELSE IF L.items[k + 3].err THEN r.err.kind = "Lexer"
             ELSE r.err = UnexpectedToken(L.items[k + 3])
     ELSE IF ~a.ok THEN ~r.ok /\ r.err = a.err
     ELSE IF ~d.ok THEN ~r.ok /\ r.err = d.err
     ELSE IF ~ss.ok THEN ~r.ok /\ r.err = ss.err
     ELSE /\ r.ok
          /\ r.val.alias = (IF aliased THEN <<[loc |-> r.val.alias[1].loc,
                                               value |-> L.items[k + 1].kind.value]>>
                            ELSE <<>>)
          /\ r.val.name.value = L.items[c].kind.value
          /\ r.val.arguments = a.val
          /\ IsToken(L, c + 1, "LeftParen") <=> r.val.arguments # <<>>
          /\ r.val.directives = d.val
          /\ r.val.selection_set = (IF check(p, d.s, "LeftBrace") THEN <<ss.val>> ELSE <<>>)
          /\ r.s.k = ss.s.k

\* C19: field alias.  parse_field reads a name; before a `:` that name is
\* the alias and a second name, which must follow, is the field's name;
\* otherwise there is no alias and the name is the field's.  Then come the
\* arguments, in parentheses and not empty, if any, the directives, and the
\* selection set if any, in that order.
C19_FieldAlias ==
  phase = "parsed" =>
    \A k \in SelectionStarts(SourceParser) :
      IsToken(Lex(source), k + 1, "Name") => FieldShape(SourceParser, k)

\* A field with an alias, arguments and a selection set was parsed.
C19_Witness ==
  /\ phase = "parsed"
  /\ \E k \in SelectionStarts(SourceParser) :
       LET r == parse_item("field", SourceParser, Cursor(k))
       IN /\ IsToken(Lex(source), k + 1, "Name")
          /\ r.ok
          /\ r.val.alias # <<>>
          /\ r.val.arguments # <<>>
          /\ r.val.selection_set # <<>>

\* The characters of a string value as C20 says they are written.
RECURSIVE Escaped(_)
Escaped(value) ==
  IF value = <<>> THEN <<>>
  ELSE (CASE Head(value) = "\"" -> <<"\\", "\"">>
          [] Head(value) = "\\" -> <<"\\", "\\">>
          [] Head(value) = "\n" -> <<"\\", "n">>
          [] OTHER -> <<Head(value)>>) \o Escaped(Tail(value))

\* The text holds the part.
Contains(text, part) ==
  \E i \in 1..(Len(text) - Len(part) + 1) : SubSeq(text, i, i + Len(part) - 1) = part

\* The values of the string tokens of a text.
StringValues(text) ==
  LET L == Lex(text)
  IN {L.items[k].kind.value : k \in {j \in 1..Len(L.items) : IsToken(L, j, "String")}}

\* C20: printer string escaping.  print_string_value writes a double quote,
\* then backslash-quote for a double quote, two backslashes for a backslash,
\* backslash-n for a newline and every other character as it is, tab and
\* carriage return included, then a double quote.
C20_StringEscaping ==
  phase = "printed" =>
    \A value \in StringValues(source) :
      LET written == <<"\"">> \o Escaped(value) \o <<"\"">>
      IN /\ print_string_value(Printer(<<>>, 2, 0), [loc |-> <<>>, value |-> value]).output
              = written
         /\ Contains(printed, written)

\* A string value that holds a quote, a backslash, a newline and a tab was
\* printed.
C20_Witness ==
  /\ phase = "printed"
  /\ \E value \in StringValues(source) :
       {"\"", "\\", "\n", "\t"} \subseteq {value[i] : i \in 1..Len(value)}

\* The index just past the name that starts at text[i].
RECURSIVE NameEnd(_, _)
NameEnd(text, i) ==
  IF i <= Len(text) /\ text[i] \in NameContinue THEN NameEnd(text, i + 1) ELSE i

\* The index of the first `)` at or after text[i], or Len(text) + 1.
RECURSIVE ClosingParen(_, _)
ClosingParen(text, i) ==
  IF i > Len(text) \/ text[i] = ")" THEN i ELSE ClosingParen(text, i + 1)

\* The index just past the directive (name and arguments) whose `@` is text[i].
DirectiveEnd(text, i) ==
  LET e == NameEnd(text, i + 1)
  IN IF e <= Len(text) /\ text[e] = "(" THEN ClosingParen(text, e) + 1 ELSE e

\* The `@` of the printed text that open a directive of a directive list (the
\* `@` of a directive definition's own name is not one of them).
DirectiveSigns(text) ==
  {i \in 1..Len(text) :
     /\ text[i] = "@"
     /\ ~(i > 10 /\ SubSeq(text, i - 10, i - 1) = Kw_directive \o <<" ">>)}

\* C21: in the printed document an empty directive list prints nothing, and
\* every directive of a non-empty list is preceded by exactly one space (after
\* the preceding text, or after the previous directive) and, when a `{`
\* follows the list, is separated from it by exactly one space.
C21_DirectiveSpacing ==
  /\ print_item("directives", Printer(<<"a">>, 2, 0), <<>>).output = <<"a">>
  /\ phase = "printed" =>
       \A i \in DirectiveSigns(printed) :
         LET e == DirectiveEnd(printed, i)
         IN /\ i > 2
            /\ printed[i - 1] = " "
            /\ printed[i - 2] \notin {" ", "\n"}
            /\ e <= Len(printed) => printed[e] \in {" ", "\n"}
            /\ e < Len(printed) /\ printed[e] = " " =>
                 printed[e + 1] \in {"@", "{", "="}

\* C21 without the schema definition: the spacing holds in every printed
\* document that has no schema definition with directives.
C21_DirectiveSpacingElsewhere ==
  (phase = "printed" /\ \E k \in 1..Len(parsed.document.definitions) :
     LET definition == parsed.document.definitions[k]
     IN /\ definition.tag = "TypeSystem"
        /\ definition.node.tag = "Schema"
        /\ definition.node.node.directives # <<>>)
  \/ C21_DirectiveSpacing

\* The lines of a text: where each starts, where it stops (the index of its
\* newline, or just past the text), and its characters.
LineStarts(text) ==
  {1} \cup {i + 1 : i \in {j \in 1..Len(text) : text[j] = "\n"}}

LineStop(text, a) ==
  LET stops == {j \in a..Len(text) : text[j] = "\n"} \cup {Len(text) + 1}
  IN CHOOSE j \in stops : \A other \in stops : j <= other

LineAt(text, a) == SubSeq(text, a, LineStop(text, a) - 1)

Leading(text) ==
  CHOOSE n \in 0..Len(text) :
    /\ \A j \in 1..n : text[j] = " "
    /\ n < Len(text) => text[n + 1] # " "

Opens(text) == text # <<>> /\ text[Len(text)] = "{"

Closes(text) == text # <<>> /\ SubSeq(text, Leading(text) + 1, Len(text)) = <<"}">>

\* The number of blocks open where the line starting at a begins.
DepthBefore(text, a) ==
  Cardinality({b \in LineStarts(text) : b < a /\ Opens(LineAt(text, b))})
    - Cardinality({b \in LineStarts(text) : b < a /\ Closes(LineAt(text, b))})

\* The number of lines a selection set takes when each selection is on a line
\* of its own: one for `{`, one for `}`, and those of its selections (a
\* selection with a selection set starts on the line of that set's `{`).
RECURSIVE SelectionSetLines(_)
RECURSIVE SelectionLinesFrom(_, _)
SelectionLinesFrom(selections, i) ==
  IF i > Len(selections) THEN 0
  ELSE LET selection == selections[i]
           here == CASE selection.tag = "Field" ->
                          IF selection.node.selection_set = <<>> THEN 1
                          ELSE SelectionSetLines(selection.node.selection_set[1])
                     [] selection.tag = "InlineFragment" ->
                          SelectionSetLines(selection.node.selection_set)
                     [] OTHER -> 1
       IN here + SelectionLinesFrom(selections, i + 1)

SelectionSetLines(selection_set) == 2 + SelectionLinesFrom(selection_set.selections, 1)

RECURSIVE DefinitionLinesFrom(_, _)
DefinitionLinesFrom(definitions, i) ==
  IF i > Len(definitions) THEN 0
  ELSE SelectionSetLines(definitions[i].node.selection_set)
         + DefinitionLinesFrom(definitions, i + 1)

Executable(document) ==
  \A i \in 1..Len(document.definitions) :
    document.definitions[i].tag \in {"Operation", "Fragment"}

\* C22: a printed document of operations and fragments ends with exactly one
\* newline and separates its definitions by exactly one blank line; a `{`
\* that opens a selection set ends its line, every selection is on a line of
\* its own indented by two spaces per open selection set, and each `}` is
\* alone on a line at the indentation of the line that opened its set.
C22_SelectionSetLayout ==
  (phase = "printed" /\ Executable(parsed.document)) =>
    LET definitions == parsed.document.definitions
        starts == LineStarts(printed)
        last == Len(printed) + 1
        blank == {a \in starts : a < last /\ LineAt(printed, a) = <<>>}
    IN /\ printed[Len(printed)] = "\n"
       /\ Cardinality(starts) = DefinitionLinesFrom(definitions, 1) + Len(definitions)
       /\ Cardinality(blank) = Len(definitions) - 1
       /\ \A a \in blank :
            /\ DepthBefore(printed, a) = 0
            /\ a - 1 \notin blank
            /\ LineStop(printed, a) + 1 \notin blank \cup {last}
       /\ \A a \in starts \ (blank \cup {last}) :
            LET text == LineAt(printed, a)
                depth == DepthBefore(printed, a) - (IF Closes(text) THEN 1 ELSE 0)
            IN /\ depth >= 0
               /\ Leading(text) = 2 * depth
               /\ depth = 0 => (a = 1 \/ a - 1 \in blank \/ Closes(text))
       /\ DepthBefore(printed, last) = 0

\* C22 witness: a printed document of two definitions, the first with a
\* selection set nested in another.
C22_Witness ==
  /\ phase = "printed"
  /\ Executable(parsed.document)
  /\ Len(parsed.document.definitions) = 2
  /\ \E selection \in SelectionsIn(parsed.document.definitions[1].node.selection_set) :
       selection.tag = "Field" /\ selection.node.selection_set # <<>>
  /\ Contains(printed, <<"\n", " ", " ", " ", " ", "a", "\n", " ", " ", "}", "\n", "}",
                        "\n", "\n", "{", "\n">>)

\* The fragment definitions of a document.
FragmentsOf(document) ==
  {document.definitions[i].node :
     i \in {j \in 1..Len(document.definitions) : document.definitions[j].tag = "Fragment"}}

\* C23: where a fragment definition's name is parsed and the next token is a
\* name, parse_fragment_name fails with UnexpectedToken of that token when
\* the name is `on` and returns the name, consuming it, when it is any other
\* name; so no fragment definition of a parsed document is named `on`.
C23_FragmentName ==
  phase = "parsed" =>
    /\ \A k \in DefinitionStarts(SourceParser, 0) :
         (IsNameToken(Lex(source), k + 1, Kw_fragment) /\ IsToken(Lex(source), k + 2, "Name")) =>
           LET token == Lex(source).items[k + 2]
               r == parse_item("fragment_name", SourceParser, Cursor(k + 1))
           IN IF token.kind.value = Kw_on
              THEN ~r.ok /\ r.err = UnexpectedToken(token)
              ELSE r.ok /\ r.val.value = token.kind.value /\ r.s.k = k + 2
    /\ parsed.ok => \A fragment \in FragmentsOf(parsed.document) : fragment.name.value # Kw_on

\* C23 for the names other than `on` and `ok`: parse_fragment_name returns the
\* name and consumes it.
C23_OtherFragmentNames ==
  phase = "parsed" =>
    \A k \in DefinitionStarts(SourceParser, 0) :
      (/\ IsNameToken(Lex(source), k + 1, Kw_fragment)
       /\ IsToken(Lex(source), k + 2, "Name")
       /\ Lex(source).items[k + 2].kind.value \notin {Kw_on, Kw_ok}) =>
        LET r == parse_item("fragment_name", SourceParser, Cursor(k + 1))
        IN r.ok /\ r.val.value = Lex(source).items[k + 2].kind.value /\ r.s.k = k + 2

\* The cursors where an object type definition with an `implements` clause
\* starts: `type Name implements` at the start of a definition or after
\* `extend`.
ImplementsStarts(p) ==
  {k \in 0..Len(p.lexer.items) :
     /\ \/ k \in DefinitionStarts(p, 0)
        \/ k - 1 \in DefinitionStarts(p, 0) /\ IsNameToken(p.lexer, k, Kw_extend)
     /\ IsNameToken(p.lexer, k + 1, Kw_type)
     /\ IsToken(p.lexer, k + 2, "Name")
     /\ IsNameToken(p.lexer, k + 3, Kw_implements)}

\* C24: an object type definition whose `implements` is followed directly by
\* a token that is not a name is a parse error, and one that parses has at
\* least one interface.
C24_ImplementsNeedsType ==
  phase = "parsed" =>
    \A k \in ImplementsStarts(SourceParser) :
      LET r == parse_item("object_type_definition", SourceParser, Cursor(k))
          follows == k + 4 <= Len(Lex(source).items)
      IN /\ (follows /\ ~IsToken(Lex(source), k + 4, "Name")) => ~r.ok
         /\ r.ok => r.val.interfaces # <<>>

\* C24 as the code has it: the interfaces are exactly the run of names that
\* follows `implements`, which may be empty.
C24_InterfacesAreTheNames ==
  phase = "parsed" =>
    \A k \in ImplementsStarts(SourceParser) :
      LET r == parse_item("implements_interfaces", SourceParser, Cursor(k + 2))
          names == {n \in 0..(Len(Lex(source).items) - k - 3) :
                      \A j \in 1..n : IsToken(Lex(source), k + 3 + j, "Name")}
          count == CHOOSE n \in names : \A other \in names : other <= n
      IN /\ r.ok
         /\ Len(r.val) = count
         /\ \A j \in 1..count : r.val[j].name.value = Lex(source).items[k + 3 + j].kind.value

\* What the loops of the parser parse once per iteration: parse_document's
\* definitions, the items of many(), parse_directives' directives, and the
\* named types and names of parse_union_members and parse_directive_locations.
LoopItems ==
  {"definition", "variable_definition", "selection", "argument", "value_literal",
   "object_field", "operation_type_definition", "field_definition",
   "input_value_definition", "enum_value_definition", "directive", "named_type", "name"}

\* The lists the loops build, one element per iteration.
LoopLists ==
  {"directives", "arguments", "variable_definitions", "argument_definitions",
   "implements_interfaces", "union_members", "directive_locations"}

\* C25: started at any token of the text, an iteration of a parser loop that
\* goes on has consumed at least one token and none beyond the last (the
\* loops leave on an error, on their closing token and on a missing `@`, name
\* or `|`), so a loop that ends well has iterated at most once per token it
\* consumed; the parse of the text has ended, with at most one definition
\* per token.
C25_LoopsProgress ==
  phase = "parsed" =>
    LET p == SourceParser
        n == Len(p.lexer.items)
    IN /\ \A k \in 0..n : \A item \in LoopItems :
            LET r == parse_item(item, p, Cursor(k))
            IN r.ok => (r.s.k > k /\ r.s.k <= n)
       /\ \A k \in 0..n :
            LET r == next_if_any_name(p, Cursor(k))
                pipe == next_if(p, Cursor(k), "Pipe")
            IN /\ r.val # <<>> => r.s.k = k + 1
               /\ pipe.val # <<>> => pipe.s.k = k + 1
               /\ check(p, Cursor(k), "At") => k < n
       /\ \A k \in 0..n : \A item \in LoopLists :
            LET r == parse_item(item, p, Cursor(k))
            IN r.ok => (Len(r.val) <= r.s.k - k /\ r.s.k <= n)
       /\ \A k \in 0..n :
            LET r == parse_item("selection_set", p, Cursor(k))
                list == parse_item("list_value", p, Cursor(k))
                object == parse_item("object_value", p, Cursor(k))
            IN /\ r.ok => Len(r.val.selections) <= r.s.k - k - 2
               /\ list.ok => Len(list.val.values) <= list.s.k - k - 2
               /\ object.ok => Len(object.val.fields) <= object.s.k - k - 2
       /\ parsed \in {Outcome(parse_item("document", p, StartCursor))}
       /\ parsed.ok => Len(parsed.document.definitions) <= n

\* C25 witness: a parsed document in which the loops of parse_document, of
\* many() and of parse_directives have each iterated.
C25_Witness ==
  /\ phase = "parsed"
  /\ parsed.ok
  /\ Len(parsed.document.definitions) >= 2
  /\ parsed.document.definitions[1].tag = "Operation"
  /\ parsed.document.definitions[1].node.directives # <<>>
  /\ parsed.document.definitions[1].node.selection_set.selections # <<>>

\* The parser of the source's tokens up to its last item, without that item.
BeforeLast(p) ==
  [p EXCEPT !.lexer.items = SubSeq(p.lexer.items, 1, Len(p.lexer.items) - 1)]

\* The parser reaches the last item of the stream: parsing what precedes it
\* ends well or stops for want of a further token.
ReachesLast(p) ==
  LET r == parse_item("document", BeforeLast(p), StartCursor)
  IN IF r.ok THEN TRUE ELSE r.err.kind = "UnexpectedEnding"

\* C26: where the next item of the lexer is an error, check, check_name,
\* next_if, next_if_any_name and next_if_name answer false or None without
\* consuming it, and when the parser reaches the item the parse ends with
\* Err(Lexer(error)) of exactly that error; a parse that stops before it
\* stops with the error it gives without the item.
C26_LexerErrorSurfaces ==
  (phase = "parsed" /\ Lex(source).items # <<>> /\ Lex(source).items[Len(Lex(source).items)].err) =>
    LET p == SourceParser
        n == Len(p.lexer.items)
        s == Cursor(n - 1)
        error == p.lexer.items[n].error
        tags == {"At", "Pipe", "LeftBrace", "RightBrace", "LeftParen", "RightParen",
                 "LeftBracket", "RightBracket", "Colon", "Dollar", "Equals", "Bang",
                 "Ellipsis", "Name", "Int", "Float", "String"}
        names == {Kw_on, Kw_fragment, Kw_implements, Kw_null, Kw_true, Kw_false}
    IN /\ \A tag \in tags :
            /\ ~check(p, s, tag)
            /\ next_if(p, s, tag).val = <<>> /\ next_if(p, s, tag).s.k = n - 1
       /\ \A name \in names :
            /\ ~check_name(p, s, name)
            /\ next_if_name(p, s, name).val = FALSE /\ next_if_name(p, s, name).s.k = n - 1
       /\ next_if_any_name(p, s).val = <<>> /\ next_if_any_name(p, s).s.k = n - 1
       /\ next(p, s) = Err(LexerErr(error), Advanced(p, s))
       /\ unexpected(p, s).err = LexerErr(error)
       /\ ~parsed.ok
       /\ IF ReachesLast(p) THEN parsed.error = LexerErr(error)
          ELSE parsed = Outcome(parse_item("document", BeforeLast(p), StartCursor))

\* C26 witness: the lexer's error follows a directive, where parse_directives
\* peeks at it and leaves its loop, and the parse ends with that error.
C26_Witness ==
  /\ phase = "parsed"
  /\ Len(Lex(source).items) >= 4
  /\ Lex(source).items[Len(Lex(source).items)].err
  /\ IsToken(Lex(source), Len(Lex(source).items) - 2, "At")
  /\ ReachesLast(SourceParser)
  /\ parsed = [ok |-> FALSE, error |-> LexerErr(Lex(source).items[Len(Lex(source).items)].error)]

\* The i-th smallest element of a set of numbers.
Nth(set, i) == CHOOSE k \in set : Cardinality({j \in set : j < k}) = i - 1

\* C27: when the parse is Ok no item of the lexer is left, and the
\* definitions of the document are, in order, the definitions parsed one
\* after the other from the first token to the last: each starts where the
\* one before ended and the last ends with the last token.
C27_WholeInput ==
  (phase = "parsed" /\ parsed.ok) =>
    LET p == SourceParser
        n == Len(p.lexer.items)
        r == parse_item("document", p, StartCursor)
        starts == DefinitionStarts(p, 0)
        definitions == parsed.document.definitions
        at(i) == parse_item("definition", p, Peeked(Cursor(Nth(starts, i))))
    IN /\ r.ok /\ r.s.k = n /\ ~HasNext(p, r.s)
       /\ n > 0
       /\ Len(definitions) = Cardinality(starts)
       /\ Nth(starts, 1) = 0
       /\ \A i \in 1..Len(definitions) :
            /\ at(i).ok
            /\ definitions[i] = at(i).val
            /\ at(i).s.k = (IF i < Len(definitions) THEN Nth(starts, i + 1) ELSE n)

\* C27 witness: a document of three definitions parsed with locations.
C27_Witness ==
  /\ phase = "parsed"
  /\ parsed.ok
  /\ config.include_location
  /\ Len(parsed.document.definitions) = 3

\* No visitor of the list overrides a hook (the list may be empty).
AllDefault(w) == \A i \in 1..Len(w.visitors) : w.visitors[i].behaviour = "noop"

\* C28: visit() with a visitor that overrides no hook returns the document it
\* was given, and so does a ParallelVisitor over visitors that override no
\* hook or over no visitor at all; every hook called returns its argument.
C28_DefaultVisitorIdentity ==
  (phase = "visited" /\ AllDefault(visitor)) =>
    /\ visited = <<parsed.document>>
    /\ \A i \in 1..Len(visitor.log) : visitor.log[i].ret = visitor.log[i].arg
    /\ visitor.visitors = <<>> => visitor.log = <<>>

\* C28 witness: a single visitor that overrides no hook has visited a field
\* whose argument is a list holding a variable and an object.
C28_Witness ==
  /\ phase = "visited"
  /\ ~visitor.parallel
  /\ AllDefault(visitor)
  /\ visited = <<parsed.document>>
  /\ \E i \in 1..Len(visitor.log) :
       /\ visitor.log[i].type = "Argument"
       /\ visitor.log[i].hook = "leave"
       /\ visitor.log[i].arg.value.tag = "List"
       /\ Len(visitor.log[i].arg.value.node.values) = 2

\* The indentation levels a node is printed from below.
StartLevels == {0, 2, 6}

\* Printing the node from the level leaves the printer at that level, and no
\* indent() or deindent() on the way has left the range of a u8.
Balanced(item, node, level) ==
  LET pr == print_item(item, Printer(<<>>, 2, level), node)
  IN pr.indentation_level = level /\ ~pr.wrapped

MaxDepth == 128

\* The printer as it is inside n nested selection sets of a document printed
\* from a new printer, for n below MaxDepth: indent() has run n times, each
\* adding indentation_size to a level that stayed below 256.
Indented(n) == Printer(<<>>, 2, 2 * n)

\* A selection set printed inside n others keeps the level in the range of a
\* u8 and starts its first selection after 2 * (n + 1) spaces.
PrintsAtDepth(selection_set, n) ==
  LET pr == print_item("selection_set", Indented(n), selection_set)
  IN /\ ~pr.wrapped
     /\ StartsWith(pr.output, <<"{", "\n">> \o Spaces(2 * (n + 1)))
     /\ pr.output[2 * (n + 1) + 3] # " "

\* The selection sets of the operations and fragments of a document.
TopSelectionSets(document) ==
  {document.definitions[i].node.selection_set :
     i \in {j \in 1..Len(document.definitions) :
              document.definitions[j].tag \in {"Operation", "Fragment"}}}

\* C30: whatever the number of selection sets a printed selection set is
\* nested in, no indent() takes indentation_level beyond 255 and line()
\* writes two spaces per level of nesting.
C30_IndentationNeverOverflows ==
  phase = "printed" =>
    \A selection_set \in TopSelectionSets(parsed.document) :
      \A n \in {m \in {0, 1, 2, MaxDepth - 2, MaxDepth - 1} : 2 * m <= 255} :
        PrintsAtDepth(selection_set, n)

\* C30 up to 127 levels: a selection set nested in at most 126 others, itself
\* without nested sets, prints within the range.
C30_WithinRangeTo127 ==
  phase = "printed" =>
    \A selection_set \in TopSelectionSets(parsed.document) :
      (\A selection \in SelectionsIn(selection_set) :
         selection.tag = "FragmentSpread"
           \/ (selection.tag = "Field" /\ selection.node.selection_set = <<>>)) =>
        \A n \in {0, 1, 2, 63, 125, 126} :
          PrintsAtDepth(selection_set, n) /\ indent(Indented(n)) = Indented(n + 1)

====
